---- MODULE Spec2Model ----
(***************************************************************************)
(* The data layer (db_service.py) and the FinanceAgent wrappers            *)
(* (finance_agent.py) of the AI finance tracker, with the two Add          *)
(* Transaction forms of app.py that drive them.                            *)
(*                                                                         *)
(* Tables are sets of rows; a row keeps the columns the modelled           *)
(* operations read or write (id, user_id, amount, type, category, ...).    *)
(* Every db_service function opens its own session, works, commits and     *)
(* closes it; the script runs of one process are sequential, so one        *)
(* session is open at a time.  Amounts are whole currency units.           *)
(***************************************************************************)
EXTENDS Integers, Sequences, FiniteSets, TLC

VARIABLES
    users,         \* User rows
    settings,      \* UserSetting rows
    transactions,  \* Transaction rows (committed)
    goals,         \* Goal rows (committed)
    budgets,       \* Budget rows (committed)
    analyses,      \* FinancialAnalysis rows (committed)
    vectors,       \* VectorTransaction rows (committed)
    nextId,        \* autoincrement counter of each table
    pc,            \* position inside reset_user_data ("idle" outside it)
    work,          \* the open session's view of the tables inside reset_user_data
    agent_user,    \* FinanceAgent.user_id
    last           \* the call that returned last: its name, arguments and result

vars == <<users, settings, transactions, goals, budgets, analyses, vectors,
          nextId, pc, work, agent_user, last>>

tables == <<transactions, goals, budgets, analyses, vectors>>

----------------------------------------------------------------------------
(* Bounds and input domains *)

\* rows inserted over a run, all tables together
MaxRows == 3

Users == {"u1", "u2"}

Amounts == {1, 2}

\* the transaction types
TypeInputs == {"income", "expense"}

CategoryInputs == {"Food"}

\* Python's None
None == [kind |-> "None"]

RetBool(b) == [kind |-> "bool", value |-> b]

RetRow(r) == [kind |-> "row", row |-> r]

NoArgs == [none |-> TRUE]

\* dict.get(key, default)
Get(d, key, default) == IF key \in DOMAIN d THEN d[key] ELSE default

RowsCreated == nextId.transaction + nextId.goal + nextId.budget
               + nextId.analysis + nextId.vector - 5

CanInsert == RowsCreated < MaxRows

----------------------------------------------------------------------------
(* Query helpers: rows of a table in primary-key order *)

Ids(rows) == {r.id : r \in rows}

MinId(rows) == CHOOSE i \in Ids(rows) : \A j \in Ids(rows) : i <= j

RECURSIVE ById(_)
ById(rows) ==
    IF rows = {} THEN <<>>
    ELSE LET first == CHOOSE r \in rows : r.id = MinId(rows)
         IN  <<first>> \o ById(rows \ {first})

RECURSIVE SumAmount(_)
\* sum(transaction.amount for transaction in query.all())
SumAmount(rowSeq) ==
    IF rowSeq = <<>> THEN 0
    ELSE Head(rowSeq).amount + SumAmount(Tail(rowSeq))

----------------------------------------------------------------------------
(* Reads *)

\* the query without its user_id filter
get_transactions_unfiltered(user_id) == ById(transactions)

get_transactions(user_id) == ById({t \in transactions : t.user_id = user_id})

get_goals(user_id) == ById({g \in goals : g.user_id = user_id})

get_budgets(user_id) == ById({b \in budgets : b.user_id = user_id})

\* the expense query without its user_id filter
calculate_balance_all_expenses(user_id) ==
    SumAmount(ById({t \in transactions :
                       t.user_id = user_id /\ t.type = "income"}))
    - SumAmount(ById({t \in transactions : t.type = "expense"}))

calculate_balance(user_id) ==
    LET total_income ==
            SumAmount(ById({t \in transactions :
                               t.user_id = user_id /\ t.type = "income"}))
        total_expenses ==
            SumAmount(ById({t \in transactions :
                               t.user_id = user_id /\ t.type = "expense"}))
    IN  total_income - total_expenses

get_transaction_summary(user_id) ==
    LET income_query == {t \in transactions :
                            t.user_id = user_id /\ t.type = "income"}
        expense_query == {t \in transactions :
                             t.user_id = user_id /\ t.type = "expense"}
        total_income == SumAmount(ById(income_query))
        total_expenses == SumAmount(ById(expense_query))
    IN  [total_transactions |->
             Cardinality({t \in transactions : t.user_id = user_id}),
         total_income |-> total_income,
         total_expenses |-> total_expenses,
         balance |-> total_income - total_expenses]

----------------------------------------------------------------------------
(* Transaction operations *)

TransactionColumns == {"user_id", "amount", "type", "category"}

NewTransaction(user_id, transaction_data) ==
    [id |-> nextId.transaction,
     user_id |-> user_id,
     amount |-> Get(transaction_data, "amount", 0),
     type |-> Get(transaction_data, "type", "None"),
     category |-> Get(transaction_data, "category", "None")]

create_transaction(user_id, transaction_data) ==
    /\ pc = "idle"
    /\ CanInsert
    /\ LET transaction == NewTransaction(user_id, transaction_data)
       IN  /\ transactions' = transactions \cup {transaction}
           /\ nextId' = [nextId EXCEPT !.transaction = @ + 1]
           /\ last' = [op |-> "create_transaction",
                       args |-> [user_id |-> user_id, data |-> transaction_data],
                       ret |-> RetRow(transaction)]
    /\ UNCHANGED <<users, settings, goals, budgets, analyses, vectors,
                   pc, work, agent_user>>

\* for key, value in data.items(): if hasattr(row, key): setattr(row, key, value)
SetAttrs(row, data, columns) ==
    [k \in DOMAIN row |->
        IF k \in DOMAIN data /\ k \in columns THEN data[k] ELSE row[k]]

update_transaction(transaction_id, transaction_data) ==
    /\ pc = "idle"
    /\ LET found == {t \in transactions : t.id = transaction_id}
           call == [op |-> "update_transaction",
                    args |-> [id |-> transaction_id],
                    ret |-> None]
       IN  IF found = {}
           THEN /\ last' = call
                /\ UNCHANGED transactions
           ELSE LET transaction == CHOOSE t \in found : TRUE
                    updated == SetAttrs(transaction, transaction_data,
                                        TransactionColumns)
                IN  /\ transactions' =
                           (transactions \ {transaction}) \cup {updated}
                    /\ last' = [call EXCEPT !.ret = RetRow(updated)]
    /\ UNCHANGED <<users, settings, goals, budgets, analyses, vectors,
                   nextId, pc, work, agent_user>>

\* the schema's foreign key VectorTransaction.transaction_id -> Transaction.id
ReferencedByVector(transaction_id) ==
    \E v \in vectors : v.transaction_id = transaction_id

RetRaise(e) == [kind |-> "raise", exc |-> e]

delete_transaction(transaction_id) ==
    /\ pc = "idle"
    /\ LET found == {t \in transactions : t.id = transaction_id}
           call == [op |-> "delete_transaction",
                    args |-> [id |-> transaction_id],
                    ret |-> None]
       IN  IF found = {}
           THEN /\ last' = [call EXCEPT !.ret = RetBool(FALSE)]
                /\ UNCHANGED transactions
           ELSE IF ReferencedByVector(transaction_id)
           THEN \* the commit is refused and the exception leaves the function
                /\ last' = [call EXCEPT !.ret = RetRaise("IntegrityError")]
                /\ UNCHANGED transactions
           ELSE /\ transactions' = transactions \ found
                /\ last' = [call EXCEPT !.ret = RetBool(TRUE)]
    /\ UNCHANGED <<users, settings, goals, budgets, analyses, vectors,
                   nextId, pc, work, agent_user>>

----------------------------------------------------------------------------
(* Goal operations *)

GoalColumns == {"user_id", "target_amount", "current_amount"}

\* a goal whose current_amount is clamped to its target_amount
NewGoal_clamped(user_id, goal_data) ==
    LET target == Get(goal_data, "target_amount", 0)
        current == Get(goal_data, "current_amount", 0)
    IN  [id |-> nextId.goal,
         user_id |-> user_id,
         target_amount |-> target,
         current_amount |-> IF current > target THEN target ELSE current]

NewGoal(user_id, goal_data) ==
    [id |-> nextId.goal,
     user_id |-> user_id,
     target_amount |-> Get(goal_data, "target_amount", 0),
     current_amount |-> Get(goal_data, "current_amount", 0)]

create_goal(user_id, goal_data) ==
    /\ pc = "idle"
    /\ CanInsert
    /\ LET goal == NewGoal(user_id, goal_data)
       IN  /\ goals' = goals \cup {goal}
           /\ nextId' = [nextId EXCEPT !.goal = @ + 1]
           /\ last' = [op |-> "create_goal",
                       args |-> [user_id |-> user_id, data |-> goal_data],
                       ret |-> RetRow(goal)]
    /\ UNCHANGED <<users, settings, transactions, budgets, analyses, vectors,
                   pc, work, agent_user>>

update_goal(goal_id, goal_data) ==
    /\ pc = "idle"
    /\ LET found == {g \in goals : g.id = goal_id}
           call == [op |-> "update_goal",
                    args |-> [id |-> goal_id, data |-> goal_data],
                    ret |-> None]
       IN  IF found = {}
           THEN /\ last' = [call EXCEPT !.ret = None]
                /\ UNCHANGED goals
           ELSE LET goal == CHOOSE g \in found : TRUE
                    updated == SetAttrs(goal, goal_data, GoalColumns)
                IN  /\ goals' = (goals \ {goal}) \cup {updated}
                    /\ last' = [call EXCEPT !.ret = RetRow(updated)]
    /\ UNCHANGED <<users, settings, transactions, budgets, analyses, vectors,
                   nextId, pc, work, agent_user>>

----------------------------------------------------------------------------
(* Budget, analysis and vector rows *)

NewBudget(user_id, budget_data) ==
    [id |-> nextId.budget,
     user_id |-> user_id,
     category |-> Get(budget_data, "category", "None"),
     amount |-> Get(budget_data, "amount", 0)]

create_budget(user_id, budget_data) ==
    /\ pc = "idle"
    /\ CanInsert
    /\ LET budget == NewBudget(user_id, budget_data)
       IN  /\ budgets' = budgets \cup {budget}
           /\ nextId' = [nextId EXCEPT !.budget = @ + 1]
           /\ last' = [op |-> "create_budget",
                       args |-> [user_id |-> user_id, data |-> budget_data],
                       ret |-> RetRow(budget)]
    /\ UNCHANGED <<users, settings, transactions, goals, analyses, vectors,
                   pc, work, agent_user>>

NewAnalysis(user_id, analysis_type) ==
    [id |-> nextId.analysis, user_id |-> user_id,
     analysis_type |-> analysis_type]

create_financial_analysis(user_id, analysis_type) ==
    /\ pc = "idle"
    /\ CanInsert
    /\ LET analysis == NewAnalysis(user_id, analysis_type)
       IN  /\ analyses' = analyses \cup {analysis}
           /\ nextId' = [nextId EXCEPT !.analysis = @ + 1]
           /\ last' = [op |-> "create_financial_analysis",
                       args |-> [user_id |-> user_id,
                                 data |-> [analysis_type |-> analysis_type]],
                       ret |-> RetRow(analysis)]
    /\ UNCHANGED <<users, settings, transactions, goals, budgets, vectors,
                   pc, work, agent_user>>

\* vector_processing.process_new_transaction: the embedding of a stored
\* transaction is recorded as a VectorTransaction row that references it
process_new_transaction(transaction_id) ==
    /\ pc = "idle"
    /\ CanInsert
    /\ transaction_id \in Ids(transactions)
    /\ ~ReferencedByVector(transaction_id)
    /\ vectors' = vectors \cup
           {[id |-> nextId.vector, transaction_id |-> transaction_id]}
    /\ nextId' = [nextId EXCEPT !.vector = @ + 1]
    /\ last' = [op |-> "process_new_transaction",
                args |-> [id |-> transaction_id],
                ret |-> None]
    /\ UNCHANGED <<users, settings, transactions, goals, budgets, analyses,
                   pc, work, agent_user>>

----------------------------------------------------------------------------
(* reset_user_data: one session, one database transaction.  db.delete marks *)
(* a row; the session flushes the marked rows before its next query, so     *)
(* each loop's deletes have reached the database transaction when the next  *)
(* query runs.  work is what that uncommitted transaction holds; the        *)
(* committed tables change at db.commit() only.                            *)

Snapshot ==
    [transactions |-> transactions, goals |-> goals, budgets |-> budgets,
     analyses |-> analyses, vectors |-> vectors,
     users |-> users, settings |-> settings]

\* the transactions deleted before the vector rows that reference them
ResetOrder_parents_first ==
    <<"analyses", "transactions", "vectors", "goals", "budgets", "commit">>

\* the statements of the try block, in source order
ResetOrder ==
    <<"vectors", "analyses", "transactions", "goals", "budgets", "commit">>

StepAfter(step) ==
    LET i == CHOOSE k \in 1..Len(ResetOrder) : ResetOrder[k] = step
    IN  IF i = Len(ResetOrder) THEN "idle" ELSE ResetOrder[i + 1]

\* db.query(VectorTransaction).join(Transaction, ...).filter(Transaction.user_id == user_id)
UserVectorTransactions(w) ==
    {v \in w.vectors :
        \E t \in w.transactions :
            t.id = v.transaction_id /\ t.user_id = w.user_id}

\* the query without its user_id filter
OwnedBy_any_user(rows, user_id) == rows

OwnedBy(rows, user_id) == {r \in rows : r.user_id = user_id}

\* db = get_db(); try: db.begin().  The session starts from the committed
\* tables.  A db.begin() that raises is reset_except taken before any delete.
reset_user_data(user_id) ==
    /\ pc = "idle"
    /\ pc' = ResetOrder[1]
    /\ work' = [user_id |-> user_id,
                transactions |-> transactions, goals |-> goals,
                budgets |-> budgets, analyses |-> analyses,
                vectors |-> vectors]
    /\ last' = [op |-> "reset_user_data",
                args |-> [user_id |-> user_id],
                ret |-> None]
    /\ UNCHANGED <<users, settings, tables, nextId, agent_user>>

reset_delete_vectors ==
    /\ pc = "vectors"
    /\ work' = [work EXCEPT !.vectors = @ \ UserVectorTransactions(work)]
    /\ pc' = StepAfter("vectors")
    /\ UNCHANGED <<users, settings, tables, nextId, agent_user, last>>

reset_delete_analyses ==
    /\ pc = "analyses"
    /\ work' = [work EXCEPT !.analyses = @ \ OwnedBy(@, work.user_id)]
    /\ pc' = StepAfter("analyses")
    /\ UNCHANGED <<users, settings, tables, nextId, agent_user, last>>

reset_delete_transactions ==
    /\ pc = "transactions"
    /\ work' = [work EXCEPT !.transactions = @ \ OwnedBy(@, work.user_id)]
    /\ pc' = StepAfter("transactions")
    /\ UNCHANGED <<users, settings, tables, nextId, agent_user, last>>

reset_delete_goals ==
    /\ pc = "goals"
    /\ work' = [work EXCEPT !.goals = @ \ OwnedBy(@, work.user_id)]
    /\ pc' = StepAfter("goals")
    /\ UNCHANGED <<users, settings, tables, nextId, agent_user, last>>

reset_delete_budgets ==
    /\ pc = "budgets"
    /\ work' = [work EXCEPT !.budgets = @ \ OwnedBy(@, work.user_id)]
    /\ pc' = StepAfter("budgets")
    /\ UNCHANGED <<users, settings, tables, nextId, agent_user, last>>

\* what the database holds after db.commit(): the session's work
commit ==
    [transactions |-> work.transactions, goals |-> work.goals,
     budgets |-> work.budgets, analyses |-> work.analyses,
     vectors |-> work.vectors]

\* a rollback that leaves the flushed deletes in the database
rollback_keeps_flushed == commit

\* what the database holds after db.rollback(): what was committed before
rollback ==
    [transactions |-> transactions, goals |-> goals, budgets |-> budgets,
     analyses |-> analyses, vectors |-> vectors]

Store(db) ==
    /\ transactions' = db.transactions
    /\ goals' = db.goals
    /\ budgets' = db.budgets
    /\ analyses' = db.analyses
    /\ vectors' = db.vectors

\* deletes of the open session that are not committed yet
Pending == commit # rollback

\* db.commit(); return True
reset_commit ==
    /\ pc = "commit"
    /\ Store(commit)
    /\ pc' = StepAfter("commit")
    /\ work' = None
    /\ last' = [last EXCEPT !.ret = [kind |-> "bool", value |-> TRUE,
                                     before |-> Snapshot,
                                     pending |-> Pending]]
    /\ UNCHANGED <<users, settings, nextId, agent_user>>

\* a statement of the try block raises: db.rollback(); return False
reset_except ==
    /\ pc # "idle"
    /\ Store(rollback)
    /\ pc' = "idle"
    /\ work' = None
    /\ last' = [last EXCEPT !.ret = [kind |-> "bool", value |-> FALSE,
                                     before |-> Snapshot,
                                     pending |-> Pending]]
    /\ UNCHANGED <<users, settings, nextId, agent_user>>

----------------------------------------------------------------------------
Init ==
    /\ users = {[id |-> u] : u \in Users}
    /\ settings = {[user_id |-> u] : u \in Users}
    /\ transactions = {}
    /\ goals = {}
    /\ budgets = {}
    /\ analyses = {}
    /\ vectors = {}
    /\ nextId = [transaction |-> 1, goal |-> 1, budget |-> 1,
                 analysis |-> 1, vector |-> 1]
    /\ pc = "idle"
    /\ work = None
    /\ agent_user = "None"
    /\ last = [op |-> "none", args |-> NoArgs, ret |-> None]

TransactionInputs ==
    [amount : Amounts, type : TypeInputs, category : CategoryInputs]

TransactionUpdates ==
    {[amount |-> a] : a \in Amounts} \cup {[type |-> t] : t \in TypeInputs}
        \cup {[color |-> "red"]}

\* a goal's target is 2; the current amount may be left out, below or above it
GoalInputs ==
    {[target_amount |-> 2], [target_amount |-> 2, current_amount |-> 3]}

GoalUpdates == {[current_amount |-> c] : c \in {1, 3}}

BudgetInputs == {[category |-> "Food", amount |-> 2]}

\* ids a caller may name: every id handed out so far (stored or deleted since)
\* and the first id not handed out yet
TransactionIds == 1..nextId.transaction

GoalIds == 1..nextId.goal

Next ==
    \/ \E u \in Users, d \in TransactionInputs : create_transaction(u, d)
    \/ \E i \in TransactionIds, d \in TransactionUpdates :
           update_transaction(i, d)
    \/ \E i \in TransactionIds : delete_transaction(i)
    \/ \E u \in Users, d \in GoalInputs : create_goal(u, d)
    \/ \E i \in GoalIds, d \in GoalUpdates : update_goal(i, d)
    \/ \E u \in Users, d \in BudgetInputs : create_budget(u, d)
    \/ \E u \in Users : create_financial_analysis(u, "summary")
    \/ \E i \in TransactionIds : process_new_transaction(i)
    \/ \E u \in Users : reset_user_data(u)
    \/ reset_delete_vectors
    \/ reset_delete_analyses
    \/ reset_delete_transactions
    \/ reset_delete_goals
    \/ reset_delete_budgets
    \/ reset_commit
    \/ reset_except

Spec == Init /\ [][Next]_vars

----------------------------------------------------------------------------
(* FinanceAgent (finance_agent.py).  A call into ai_agents or fetch_agents  *)
(* either returns a value or raises an Exception with a message; messages  *)
(* are sequences of characters.                                            *)

\* str.lower(), on the letters that occur
LowerChar(c) ==
    CASE c = "Q" -> "q"
      [] c = "U" -> "u"
      [] c = "O" -> "o"
      [] c = "T" -> "t"
      [] c = "A" -> "a"
      [] OTHER -> c

LowerChars(s) == [i \in 1..Len(s) |-> LowerChar(s[i])]

\* needle in hay
Contains(hay, needle) ==
    \E i \in 1..(Len(hay) - Len(needle) + 1) :
        SubSeq(hay, i, i + Len(needle) - 1) = needle

QuotaWord == <<"q", "u", "o", "t", "a">>

InsufficientQuotaWord ==
    <<"i", "n", "s", "u", "f", "f", "i", "c", "i", "e", "n", "t", "_">>
        \o QuotaWord

\* "quota" in error_msg.lower() or "insufficient_quota" in error_msg.lower()
IsQuotaError(error_msg) ==
    \/ Contains(LowerChars(error_msg), QuotaWord)
    \/ Contains(LowerChars(error_msg), InsufficientQuotaWord)

ErrorMessages ==
    {<<>>,
     QuotaWord,
     <<"Q", "U", "O", "T", "A", "!">>,
     <<"n", "o", " ">> \o QuotaWord \o <<" ", "l", "e", "f", "t">>,
     <<"q", "u">> \o QuotaWord,
     InsufficientQuotaWord,
     <<"q", "u", "o", "t", " ", "a">>,
     <<"t", "i", "m", "e", "o", "u", "t">>}

AiRaise(message) == [kind |-> "raise", message |-> message]

AiOk(value) == [kind |-> "ok", value |-> value]

AiOutcomes(values) ==
    {AiOk(v) : v \in values} \cup {AiRaise(m) : m \in ErrorMessages}

RetValue(v) == [kind |-> "value", value |-> v]

set_user(user_id) ==
    /\ pc = "idle"
    /\ agent_user # user_id
    /\ agent_user' = user_id
    /\ last' = [op |-> "set_user", args |-> [user_id |-> user_id],
                ret |-> None]
    /\ UNCHANGED <<users, settings, tables, nextId, pc, work>>

\* a categorize_transaction that lets the exception of the AI call through
categorize_transaction_reraises(description, ai) ==
    IF ai.kind = "ok" THEN RetValue(ai.value) ELSE RetRaise(ai.message)

\* try: return ai_agents.get_transaction_categorization(description)
\* except Exception: return "Other"
categorize_transaction(description, ai) ==
    IF ai.kind = "ok" THEN RetValue(ai.value) ELSE RetValue("Other")

InsightsQuotaMessage ==
    "AI insights are currently unavailable due to OpenAI API quota limitations. Please check your OpenAI API plan, billing details, or try again later."

QuotaMessage ==
    "AI features are currently unavailable due to OpenAI API quota limitations. Please check your OpenAI API plan, billing details, or try again later."

InsightsUnavailableMessage ==
    "AI insights are currently unavailable. Please try again later."

UnavailableMessage ==
    "AI features are currently unavailable. Please try again later."

QuotaAnswer ==
    "I'm sorry, but I can't process your question right now due to API limitations. Please try again later."

UnavailableAnswer ==
    "I'm sorry, but I can't process your question right now. Please try again later."

\* a get_insights that tests the message for "quota" as it is, without lower()
get_insights_case_sensitive(time_period, ai) ==
    IF agent_user = "None" THEN RetValue([error |-> "User not set"])
    ELSE IF ai.kind = "ok" THEN RetValue(ai.value)
    ELSE IF Contains(ai.message, QuotaWord)
    THEN RetValue([error |-> "API_QUOTA_EXCEEDED", message |-> InsightsQuotaMessage])
    ELSE RetValue([error |-> "AI_UNAVAILABLE", message |-> InsightsUnavailableMessage])

get_insights(time_period, ai) ==
    IF agent_user = "None" THEN RetValue([error |-> "User not set"])
    ELSE IF ai.kind = "ok" THEN RetValue(ai.value)
    ELSE IF IsQuotaError(ai.message)
    THEN RetValue([error |-> "API_QUOTA_EXCEEDED", message |-> InsightsQuotaMessage])
    ELSE RetValue([error |-> "AI_UNAVAILABLE", message |-> InsightsUnavailableMessage])

answer_question(query, ai) ==
    IF agent_user = "None" THEN RetValue([error |-> "User not set"])
    ELSE IF ai.kind = "ok" THEN RetValue(ai.value)
    ELSE IF IsQuotaError(ai.message)
    THEN RetValue([error |-> "API_QUOTA_EXCEEDED", message |-> QuotaMessage,
                   answer |-> QuotaAnswer])
    ELSE RetValue([error |-> "AI_UNAVAILABLE", message |-> UnavailableMessage,
                   answer |-> UnavailableAnswer])

AgentCall(op, args, ret) ==
    /\ pc = "idle"
    /\ last' = [op |-> op, args |-> args, ret |-> ret]
    /\ UNCHANGED <<users, settings, tables, nextId, pc, work, agent_user>>

call_categorize_transaction(description, ai) ==
    AgentCall("categorize_transaction",
              [description |-> description, ai |-> ai],
              categorize_transaction(description, ai))

call_get_insights(time_period, ai) ==
    AgentCall("get_insights",
              [user_id |-> agent_user, time_period |-> time_period, ai |-> ai],
              get_insights(time_period, ai))

call_answer_question(query, ai) ==
    AgentCall("answer_question",
              [user_id |-> agent_user, query |-> query, ai |-> ai],
              answer_question(query, ai))

----------------------------------------------------------------------------
(* The Add Transaction forms of app.py: the form of the Transactions page   *)
(* and the Quick Add form of the sidebar.                                  *)

\* str.lower() of the selectbox options
lower(s) ==
    CASE s = "Expense" -> "expense"
      [] s = "Income" -> "income"
      [] s = "EXPENSE" -> "expense"
      [] s = "INCOME" -> "income"
      [] OTHER -> s

TypeOptions == {"Expense", "Income"}

Message(level, row) == [kind |-> "message", level |-> level, row |-> row]

\* the call of the try block that raises, if one does:
\* db.create_transaction, vp.process_new_transaction or analyze_transaction
Faults == {"none", "db", "vp", "analyze"}

\* the body of `if submit:` once the category is known to be asked of the AI
\* (use_ai) or taken from the form (category)
SubmitTransaction(op, user_id, in, category, use_ai, ai, fault) ==
    LET valid == in.description # "" /\ in.amount > 0
        call == [op |-> op,
                 args |-> IF valid
                          THEN [user_id |-> user_id, in |-> in,
                                use_ai |-> use_ai, ai |-> ai.kind,
                                fault |-> fault]
                          ELSE [user_id |-> user_id, in |-> in],
                 ret |-> None]
        categorized == categorize_transaction(in.description, ai)
        transaction_data ==
            [amount |-> in.amount,
             type |-> lower(in.type),
             category |-> IF use_ai THEN categorized.value ELSE category]
        new_transaction == NewTransaction(user_id, transaction_data)
        failed == [call EXCEPT !.ret = Message("error", None)]
    IN  /\ pc = "idle"
        /\ RowsCreated + 2 <= MaxRows
        /\ IF ~valid
           THEN \* "Please fill in all required fields."
                /\ last' = failed
                /\ UNCHANGED <<transactions, vectors, nextId>>
           ELSE IF (use_ai /\ categorized.kind = "raise") \/ fault = "db"
           THEN \* the except branch, before anything was stored
                /\ last' = failed
                /\ UNCHANGED <<transactions, vectors, nextId>>
           ELSE /\ transactions' = transactions \cup {new_transaction}
                /\ IF fault = "vp"
                   THEN /\ UNCHANGED vectors
                        /\ nextId' = [nextId EXCEPT !.transaction = @ + 1]
                        /\ last' = [call EXCEPT !.ret =
                                       Message("error", RetRow(new_transaction))]
                   ELSE /\ vectors' = vectors \cup
                               {[id |-> nextId.vector,
                                 transaction_id |-> new_transaction.id]}
                        /\ nextId' = [nextId EXCEPT !.transaction = @ + 1,
                                                    !.vector = @ + 1]
                        /\ last' = [call EXCEPT !.ret =
                                       Message(IF fault = "analyze"
                                                   THEN "error" ELSE "success",
                                               RetRow(new_transaction))]
        /\ UNCHANGED <<users, settings, goals, budgets, analyses, pc, work>>

\* show_transactions_page: finance_agent.set_user(user_id), then the form
transaction_form(user_id, in, category, use_ai, ai, fault) ==
    /\ SubmitTransaction("transaction_form", user_id, in, category,
                         use_ai /\ in.description # "", ai, fault)
    /\ agent_user' = user_id

\* main: the sidebar form always asks the AI for the category
quick_add(user_id, in, ai, fault) ==
    /\ SubmitTransaction("quick_add", user_id, in, "None", TRUE, ai, fault)
    /\ agent_user' = IF in.description # "" /\ in.amount > 0
                     THEN user_id ELSE agent_user

\* filled-in forms, a form without a description and one without an amount
FormInputs ==
    [description : {"rent"}, amount : {1}, type : TypeOptions] \cup
    {[description |-> "", amount |-> 1, type |-> "Expense"],
     [description |-> "rent", amount |-> 0, type |-> "Income"]}

CategoryOptions == {"Food"}

\* what the categorization call does: it names a category or it raises
CategoryOutcomes ==
    {AiOk("Housing"), AiRaise(<<"t", "i", "m", "e", "o", "u", "t">>)}

\* what a direct caller of the data layer may pass as "type"
AnyTypeInputs == {"income", "expense", "Income"}

AppTransactionInputs ==
    [amount : {1}, type : AnyTypeInputs, category : CategoryInputs]

AppTransactionUpdates == {[type |-> "Income"]}

InsightAnswers == {[insights |-> "from the agent"]}

QuestionAnswers == {[answer |-> "from the agent"]}

\* the user logged in to the session that submits the forms
SessionUsers == {"u1"}

NextApp ==
    \/ \E ai \in CategoryOutcomes : call_categorize_transaction("rent", ai)
    \/ \E u \in SessionUsers, in \in FormInputs, c \in CategoryOptions,
          use_ai \in BOOLEAN, ai \in CategoryOutcomes, fault \in Faults :
           transaction_form(u, in, c, use_ai, ai, fault)
    \/ \E u \in SessionUsers, in \in FormInputs, ai \in CategoryOutcomes,
          fault \in Faults :
           quick_add(u, in, ai, fault)
    \/ \E u \in SessionUsers, d \in AppTransactionInputs :
           create_transaction(u, d)
    \/ \E i \in TransactionIds, d \in AppTransactionUpdates :
           update_transaction(i, d)

SpecApp == Init /\ [][NextApp]_vars

TimePeriods == {"week", "month", "year", "all"}

Queries == {"how much did I spend?", "am I saving?"}

NextAgent ==
    \/ \E u \in Users : set_user(u)
    \/ \E p \in TimePeriods, ai \in AiOutcomes(InsightAnswers) :
           call_get_insights(p, ai)
    \/ \E q \in Queries, ai \in AiOutcomes(QuestionAnswers) :
           call_answer_question(q, ai)

SpecAgent == Init /\ [][NextAgent]_vars

----------------------------------------------------------------------------
(* FinanceAgent.get_financial_summary: the summary computed without the AI *)

\* top_categories = sorted(...)[:5]
TopCategories == 5

\* sum(t.get("amount", 0) for t in txn_dicts if t.get("type", "").lower() == type)
SumOfType(txn_dicts, type) ==
    SumAmount(SelectSeq(txn_dicts, LAMBDA t : lower(t.type) = type))

\* category_expenses[category] += amount, a new key going last
AddToCategory(category_expenses, category, amount) ==
    IF \E i \in 1..Len(category_expenses) :
           category_expenses[i].category = category
    THEN [i \in 1..Len(category_expenses) |->
             IF category_expenses[i].category = category
             THEN [category_expenses[i] EXCEPT !.amount = @ + amount]
             ELSE category_expenses[i]]
    ELSE Append(category_expenses, [category |-> category, amount |-> amount])

RECURSIVE CategoryExpenses(_, _)
\* the loop over txn_dicts that fills category_expenses, from the dict so far
CategoryExpenses(txn_dicts, category_expenses) ==
    IF txn_dicts = <<>> THEN category_expenses
    ELSE LET txn == Head(txn_dicts)
         IN  CategoryExpenses(
                 Tail(txn_dicts),
                 IF lower(txn.type) = "expense"
                 THEN AddToCategory(category_expenses, txn.category, txn.amount)
                 ELSE category_expenses)

\* an insertion that keeps the smaller amounts first
InsertAscending(sorted, item) ==
    LET before == SelectSeq(sorted, LAMBDA x : x.amount <= item.amount)
        after == SelectSeq(sorted, LAMBDA x : x.amount > item.amount)
    IN  before \o <<item>> \o after

\* item placed after the items that are at least as large: the order
\* sorted(key=amount, reverse=True) gives, equal amounts keeping their order
InsertDescending(sorted, item) ==
    LET before == SelectSeq(sorted, LAMBDA x : x.amount >= item.amount)
        after == SelectSeq(sorted, LAMBDA x : x.amount < item.amount)
    IN  before \o <<item>> \o after

RECURSIVE SortedDescending(_, _)
SortedDescending(items, sorted) ==
    IF items = <<>> THEN sorted
    ELSE SortedDescending(Tail(items), InsertDescending(sorted, Head(items)))

FirstN(s, n) == SubSeq(s, 1, IF Len(s) < n THEN Len(s) ELSE n)

QuotaSummaryText ==
    "AI-powered insights are currently unavailable due to API quota limitations. Basic financial summary is shown instead."

BasicSummaryText ==
    "AI-powered insights are currently unavailable. Basic financial summary is shown instead."

get_financial_summary(ai) ==
    IF agent_user = "None"
    THEN RetValue([total_income |-> 0, total_expenses |-> 0,
                   net_cash_flow |-> 0, top_expense_categories |-> <<>>,
                   summary_text |-> "No user selected."])
    ELSE IF ai.kind = "ok" THEN RetValue(ai.value)
    ELSE LET txn_dicts == get_transactions(agent_user)
             total_income == SumOfType(txn_dicts, "income")
             total_expenses == SumOfType(txn_dicts, "expense")
             category_expenses == CategoryExpenses(txn_dicts, <<>>)
             top_categories ==
                 FirstN(SortedDescending(category_expenses, <<>>),
                        TopCategories)
         IN  RetValue([total_income |-> total_income,
                       total_expenses |-> total_expenses,
                       net_cash_flow |-> total_income - total_expenses,
                       top_expense_categories |-> top_categories,
                       summary_text |-> IF IsQuotaError(ai.message)
                                        THEN QuotaSummaryText
                                        ELSE BasicSummaryText])

call_get_financial_summary(ai) ==
    AgentCall("get_financial_summary",
              [user_id |-> agent_user, ai |-> ai],
              get_financial_summary(ai))

\* stored transactions the summaries are computed from: any choice among the
\* first MaxPool of these rows, the row's position being its id
MaxPool == 9

SummaryRows ==
    <<[user_id |-> "u1", amount |-> 2, type |-> "expense", category |-> "Food"],
      [user_id |-> "u1", amount |-> 5, type |-> "Expense", category |-> "Rent"],
      [user_id |-> "u1", amount |-> 9, type |-> "income", category |-> "Salary"],
      [user_id |-> "u1", amount |-> 4, type |-> "expense", category |-> "Food"],
      [user_id |-> "u1", amount |-> 1, type |-> "expense", category |-> "Travel"],
      [user_id |-> "u2", amount |-> 7, type |-> "expense", category |-> "Food"],
      [user_id |-> "u1", amount |-> 3, type |-> "expense", category |-> "Fun"],
      [user_id |-> "u1", amount |-> 2, type |-> "EXPENSE", category |-> "Health"],
      [user_id |-> "u1", amount |-> 8, type |-> "expense", category |-> "Bills"],
      [user_id |-> "u1", amount |-> 1, type |-> "Income", category |-> "Bonus"],
      [user_id |-> "u1", amount |-> 2, type |-> "expense", category |-> "Pets"]>>

PoolIds == 1..(IF MaxPool < Len(SummaryRows) THEN MaxPool ELSE Len(SummaryRows))

PoolRow(i) ==
    [id |-> i, user_id |-> SummaryRows[i].user_id,
     amount |-> SummaryRows[i].amount, type |-> SummaryRows[i].type,
     category |-> SummaryRows[i].category]

InitSummary ==
    /\ users = {[id |-> u] : u \in Users}
    /\ settings = {[user_id |-> u] : u \in Users}
    /\ \E chosen \in SUBSET PoolIds :
           transactions = {PoolRow(i) : i \in chosen}
    /\ goals = {}
    /\ budgets = {}
    /\ analyses = {}
    /\ vectors = {}
    /\ nextId = [transaction |-> Len(SummaryRows) + 1, goal |-> 1,
                 budget |-> 1, analysis |-> 1, vector |-> 1]
    /\ pc = "idle"
    /\ work = None
    /\ agent_user = "None"
    /\ last = [op |-> "none", args |-> NoArgs, ret |-> None]

SummaryAnswers == {[summary_text |-> "from the agent"]}

SummaryOutcomes ==
    {AiOk(v) : v \in SummaryAnswers}
        \cup {AiRaise(<<"t", "i", "m", "e", "o", "u", "t">>),
              AiRaise(InsufficientQuotaWord)}

NextSummary ==
    \/ \E u \in Users : set_user(u)
    \/ \E ai \in SummaryOutcomes : call_get_financial_summary(ai)

SpecSummary == InitSummary /\ [][NextSummary]_vars

----------------------------------------------------------------------------
(* FinanceAgent.predict_transactions: the predictions made without the AI.  *)
(* Descriptions and categories are sequences of characters; a date is the   *)
(* day number of a "%Y-%m-%d" string, or a string strptime rejects.         *)

Day(n) == [kind |-> "ymd", day |-> n]

NoDate == [kind |-> "empty"]

\* f"{desc}-{category}-{txn_type}" with desc = description.lower()
RecurringKey(txn) ==
    LowerChars(txn.description) \o <<"-">> \o txn.category
        \o <<"-">> \o <<txn.type>>

\* recurring[key]["transactions"].append(txn), a new key going last with the
\* description, category and type of its first transaction
AddRecurring(recurring, txn) ==
    LET key == RecurringKey(txn)
    IN  IF \E i \in 1..Len(recurring) : recurring[i].key = key
        THEN [i \in 1..Len(recurring) |->
                 IF recurring[i].key = key
                 THEN [recurring[i] EXCEPT
                          !.transactions = Append(@, txn)]
                 ELSE recurring[i]]
        ELSE Append(recurring,
                    [key |-> key, transactions |-> <<txn>>,
                     description |-> txn.description,
                     category |-> txn.category, type |-> txn.type])

RECURSIVE Recurring(_, _)
\* the loop over txn_dicts that fills recurring
Recurring(txn_dicts, recurring) ==
    IF txn_dicts = <<>> THEN recurring
    ELSE Recurring(Tail(txn_dicts), AddRecurring(recurring, Head(txn_dicts)))

\* the dates strptime parses, in the order of sorted(txns, key=date): strings
\* of the form "%Y-%m-%d" sort as their days do
RECURSIVE SortedDays(_, _)
SortedDays(txns, days) ==
    IF txns = <<>> THEN days
    ELSE LET date == Head(txns).date
         IN  SortedDays(
                 Tail(txns),
                 IF date.kind = "ymd"
                 THEN SelectSeq(days, LAMBDA d : d <= date.day)
                          \o <<date.day>>
                          \o SelectSeq(days, LAMBDA d : d > date.day)
                 ELSE days)

RECURSIVE SumSeq(_)
SumSeq(s) == IF s = <<>> THEN 0 ELSE Head(s) + SumSeq(Tail(s))

\* a quotient sum / count, kept exact
Mean(sum, count) == [sum |-> sum, count |-> count]

\* next_date = dates[-1] + datetime.timedelta(days=30)
PredictionGap == 30

\* if 25 <= avg_diff <= 35
MinMonthlyGap == 25

MaxMonthlyGap == 35

\* the prediction of one recurring entry, as a sequence of none or one
Prediction(data, today) ==
    LET txns == data.transactions
        dates == SortedDays(txns, <<>>)
        diffs == [i \in 1..(Len(dates) - 1) |-> dates[i + 1] - dates[i]]
        next_date == dates[Len(dates)] + PredictionGap
    IN  IF /\ Len(txns) >= 2
           /\ Len(dates) >= 2
           /\ MinMonthlyGap * Len(diffs) <= SumSeq(diffs)
           /\ SumSeq(diffs) <= MaxMonthlyGap * Len(diffs)
           /\ next_date > today
        THEN <<[description |-> data.description,
                category |-> data.category,
                type |-> data.type,
                amount |-> Mean(SumAmount(txns), Len(txns)),
                predicted_date |-> next_date,
                confidence |-> "0.6"]>>
        ELSE <<>>

RECURSIVE Predictions(_, _)
Predictions(recurring, today) ==
    IF recurring = <<>> THEN <<>>
    ELSE Prediction(Head(recurring), today)
             \o Predictions(Tail(recurring), today)

\* sorted(predictions, key=lambda x: x.get("predicted_date", ""))
RECURSIVE SortedByPredictedDate(_, _)
SortedByPredictedDate(predictions, sorted) ==
    IF predictions = <<>> THEN sorted
    ELSE LET p == Head(predictions)
         IN  SortedByPredictedDate(
                 Tail(predictions),
                 SelectSeq(sorted,
                           LAMBDA x : x.predicted_date <= p.predicted_date)
                     \o <<p>>
                     \o SelectSeq(sorted,
                                  LAMBDA x : x.predicted_date > p.predicted_date))

predict_transactions(ai, today) ==
    IF agent_user = "None" THEN RetValue(<<>>)
    ELSE IF ai.kind = "ok" THEN RetValue(ai.value)
    ELSE RetValue(SortedByPredictedDate(
                      Predictions(Recurring(get_transactions(agent_user), <<>>),
                                  today),
                      <<>>))

call_predict_transactions(ai, today) ==
    AgentCall("predict_transactions",
              [user_id |-> agent_user, ai |-> ai, today |-> today],
              predict_transactions(ai, today))

\* stored transactions the predictions are made from: any choice among
\* these rows, the row's position being its id
PredictRows ==
    <<[user_id |-> "u1", description |-> <<"a">>, category |-> <<"c">>,
       type |-> "expense", amount |-> 2, date |-> Day(0)],
      [user_id |-> "u1", description |-> <<"A">>, category |-> <<"c">>,
       type |-> "expense", amount |-> 4, date |-> Day(30)],
      [user_id |-> "u1", description |-> <<"a">>, category |-> <<"c">>,
       type |-> "expense", amount |-> 3, date |-> Day(70)],
      [user_id |-> "u1", description |-> <<"a", "-", "b">>,
       category |-> <<"c">>,
       type |-> "income", amount |-> 5, date |-> Day(10)],
      [user_id |-> "u1", description |-> <<"a">>,
       category |-> <<"b", "-", "c">>,
       type |-> "income", amount |-> 1, date |-> Day(40)],
      [user_id |-> "u1", description |-> <<"a", "-", "b">>,
       category |-> <<"c">>,
       type |-> "income", amount |-> 5, date |-> NoDate],
      [user_id |-> "u2", description |-> <<"a">>, category |-> <<"c">>,
       type |-> "expense", amount |-> 2, date |-> Day(30)],
      [user_id |-> "u1", description |-> <<"d">>, category |-> <<"c">>,
       type |-> "expense", amount |-> 2, date |-> Day(5)],
      [user_id |-> "u1", description |-> <<"d">>, category |-> <<"c">>,
       type |-> "expense", amount |-> 2, date |-> Day(29)]>>

PredictRow(i) ==
    [id |-> i, user_id |-> PredictRows[i].user_id,
     description |-> PredictRows[i].description,
     category |-> PredictRows[i].category, type |-> PredictRows[i].type,
     amount |-> PredictRows[i].amount, date |-> PredictRows[i].date]

InitPredict ==
    /\ users = {[id |-> u] : u \in Users}
    /\ settings = {[user_id |-> u] : u \in Users}
    /\ \E chosen \in SUBSET (1..Len(PredictRows)) :
           transactions = {PredictRow(i) : i \in chosen}
    /\ goals = {}
    /\ budgets = {}
    /\ analyses = {}
    /\ vectors = {}
    /\ nextId = [transaction |-> Len(PredictRows) + 1, goal |-> 1,
                 budget |-> 1, analysis |-> 1, vector |-> 1]
    /\ pc = "idle"
    /\ work = None
    /\ agent_user = "None"
    /\ last = [op |-> "none", args |-> NoArgs, ret |-> None]

\* datetime.datetime.now(), as a day number
Todays == {50, 59, 60, 100}

PredictOutcomes ==
    {AiOk(<<>>), AiRaise(<<"t", "i", "m", "e", "o", "u", "t">>)}

NextPredict ==
    \/ \E u \in Users : set_user(u)
    \/ \E ai \in PredictOutcomes, today \in Todays :
           call_predict_transactions(ai, today)

SpecPredict == InitPredict /\ [][NextPredict]_vars

----------------------------------------------------------------------------
(* db_service.check_budget_status.  A date is a year, a month and a day;    *)
(* percentages are kept as exact quotients.                                 *)

Ymd(y, m, d) == [y |-> y, m |-> m, d |-> d]

\* a query that returns without storing anything
Query(op, args, ret) ==
    /\ pc = "idle"
    /\ last' = [op |-> op, args |-> args, ret |-> ret]
    /\ UNCHANGED <<users, settings, tables, nextId, pc, work, agent_user>>

\* the expense query without its Transaction.date.like filter
CurrentMonthExpenses_any_month(user_id, now) ==
    ById({t \in transactions : t.user_id = user_id /\ t.type = "expense"})

\* Transaction.user_id == user_id, Transaction.type == "expense",
\* Transaction.date.like(f"{current_month}%")
CurrentMonthExpenses(user_id, now) ==
    ById({t \in transactions :
             /\ t.user_id = user_id
             /\ t.type = "expense"
             /\ t.date.y = now.y
             /\ t.date.m = now.m})

\* category_spending.get(category, 0), or total_spending
Spent(expenses, category) ==
    IF category = "All Categories"
    THEN SumAmount(expenses)
    ELSE SumAmount(SelectSeq(expenses, LAMBDA t : t.category = category))

\* (spent / amount) * 100 if amount > 0 else 0
PercentUsed(spent, amount) ==
    IF amount > 0 THEN [num |-> spent * 100, den |-> amount]
    ELSE [num |-> 0, den |-> 1]

AtLeast(percent, threshold) == percent.num >= threshold * percent.den

HighPercent == 100

MediumPercent == 90

LowPercent == 75

\* the warning of one budget, as a sequence of none or one
BudgetWarning(budget, expenses) ==
    LET spent == Spent(expenses, budget.category)
        remaining == IF budget.amount - spent > 0
                     THEN budget.amount - spent ELSE 0
        percent_used == PercentUsed(spent, budget.amount)
        severity == IF AtLeast(percent_used, HighPercent) THEN "high"
                    ELSE IF AtLeast(percent_used, MediumPercent) THEN "medium"
                    ELSE "low"
    IN  IF AtLeast(percent_used, LowPercent)
        THEN <<[budget |-> budget, spent |-> spent, remaining |-> remaining,
                percent_used |-> percent_used, severity |-> severity]>>
        ELSE <<>>

RECURSIVE BudgetWarnings(_, _)
BudgetWarnings(budgetSeq, expenses) ==
    IF budgetSeq = <<>> THEN <<>>
    ELSE BudgetWarning(Head(budgetSeq), expenses)
             \o BudgetWarnings(Tail(budgetSeq), expenses)

check_budget_status(user_id, now) ==
    BudgetWarnings(get_budgets(user_id), CurrentMonthExpenses(user_id, now))

call_check_budget_status(user_id, now) ==
    Query("check_budget_status", [user_id |-> user_id, now |-> now],
          RetValue(check_budget_status(user_id, now)))

\* stored rows the budgets are checked against: any choice among these
\* transactions and budgets, the row's position being its id
BudgetTransactionRows ==
    <<[user_id |-> "u1", type |-> "expense", category |-> "Food",
       amount |-> 3, date |-> Ymd(2024, 5, 3)],
      [user_id |-> "u1", type |-> "expense", category |-> "Food",
       amount |-> 1, date |-> Ymd(2024, 5, 20)],
      [user_id |-> "u1", type |-> "expense", category |-> "Food",
       amount |-> 5, date |-> Ymd(2024, 4, 30)],
      [user_id |-> "u1", type |-> "income", category |-> "Food",
       amount |-> 9, date |-> Ymd(2024, 5, 1)],
      [user_id |-> "u1", type |-> "expense", category |-> "Rent",
       amount |-> 7, date |-> Ymd(2024, 5, 1)],
      [user_id |-> "u2", type |-> "expense", category |-> "Food",
       amount |-> 4, date |-> Ymd(2024, 5, 2)],
      [user_id |-> "u1", type |-> "expense", category |-> "Fun",
       amount |-> 6, date |-> Ymd(2024, 5, 28)],
      [user_id |-> "u1", type |-> "expense", category |-> "Food",
       amount |-> 2, date |-> Ymd(2023, 5, 3)]>>

BudgetRows ==
    <<[user_id |-> "u1", category |-> "Food", amount |-> 4,
       period |-> "weekly"],
      [user_id |-> "u1", category |-> "All Categories", amount |-> 10,
       period |-> "yearly"],
      [user_id |-> "u1", category |-> "Food", amount |-> 0,
       period |-> "monthly"],
      [user_id |-> "u1", category |-> "Rent", amount |-> -1,
       period |-> "monthly"],
      [user_id |-> "u1", category |-> "Fun", amount |-> 5,
       period |-> "monthly"],
      [user_id |-> "u2", category |-> "Food", amount |-> 1,
       period |-> "monthly"]>>

WithId(row_data, i) ==
    [k \in DOMAIN row_data \cup {"id"} |->
        IF k = "id" THEN i ELSE row_data[k]]

InitBudget ==
    /\ users = {[id |-> u] : u \in Users}
    /\ settings = {[user_id |-> u] : u \in Users}
    /\ \E chosen \in SUBSET (1..Len(BudgetTransactionRows)) :
           transactions = {WithId(BudgetTransactionRows[i], i) : i \in chosen}
    /\ \E chosen \in SUBSET (1..Len(BudgetRows)) :
           budgets = {WithId(BudgetRows[i], i) : i \in chosen}
    /\ goals = {}
    /\ analyses = {}
    /\ vectors = {}
    /\ nextId = [transaction |-> Len(BudgetTransactionRows) + 1, goal |-> 1,
                 budget |-> Len(BudgetRows) + 1, analysis |-> 1, vector |-> 1]
    /\ pc = "idle"
    /\ work = None
    /\ agent_user = "None"
    /\ last = [op |-> "none", args |-> NoArgs, ret |-> None]

\* datetime.datetime.now()
Nows == {Ymd(2024, 5, 29), Ymd(2024, 4, 30)}

NextBudget ==
    \E u \in Users, now \in Nows : call_check_budget_status(u, now)

SpecBudget == InitBudget /\ [][NextBudget]_vars

----------------------------------------------------------------------------
(* FinanceAgent.get_financial_health_score: the basic scoring path.         *)
(* Quotients are kept exact and int() truncates toward zero.                *)

Min(a, b) == IF a < b THEN a ELSE b

Max(a, b) == IF a > b THEN a ELSE b

\* int(num / den) for den > 0
Trunc(num, den) == IF num >= 0 THEN num \div den ELSE -((-num) \div den)

\* min(20, int(min(2.0, total_income / max(1, total_expense)) * 10))
IncomeRatioScore(total_income, total_expense) ==
    IF total_income > 0
    THEN Min(20, Trunc(total_income * 10, Max(1, total_expense)))
    ELSE 0

\* max(0, min(30, int((1.0 - over * 0.2 - warning * 0.1) * 30)))
BudgetAdherenceScore(budget_dicts, statuses) ==
    IF budget_dicts = <<>> THEN 10
    ELSE IF statuses.over_budget_count + statuses.warning_count = 0
              /\ ~statuses.any
         THEN 15
    ELSE Max(0, Min(30, 30 - statuses.over_budget_count * 6
                           - statuses.warning_count * 3))

\* min(20, int((total_income - total_expense) / total_income * 100))
SavingsRateScore(total_income, total_expense) ==
    IF total_income > 0
    THEN Min(20, Trunc((total_income - total_expense) * 100, total_income))
    ELSE 0

RECURSIVE GoalProgress(_)
\* sum(current_amount / max(1, target_amount) for g in goal_dicts)
GoalProgress(goal_dicts) ==
    IF goal_dicts = <<>> THEN [num |-> 0, den |-> 1]
    ELSE LET g == Head(goal_dicts)
             rest == GoalProgress(Tail(goal_dicts))
             target == Max(1, g.target_amount)
         IN  [num |-> rest.num * target + g.current_amount * rest.den,
              den |-> rest.den * target]

\* min(15, int(goal_progress / len(goal_dicts) * 15))
GoalProgressScore(goal_dicts) ==
    IF goal_dicts = <<>> THEN 5
    ELSE LET goal_progress == GoalProgress(goal_dicts)
         IN  Min(15, Trunc(goal_progress.num * 15,
                         goal_progress.den * Len(goal_dicts)))

\* min(15, len(months) * 3), months being the date[:7] of the dated rows
ConsistencyScore(txn_dicts) ==
    LET months == {<<txn_dicts[i].date.y, txn_dicts[i].date.m>> :
                      i \in {n \in 1..Len(txn_dicts) :
                                txn_dicts[n].date # NoDate}}
    IN  IF txn_dicts = <<>> THEN 0 ELSE Min(15, Cardinality(months) * 3)

HealthMessage(total_score) ==
    IF total_score >= 80
    THEN "Excellent financial health! You're managing your finances very well."
    ELSE IF total_score >= 60
    THEN "Good financial health. There are some areas for improvement."
    ELSE IF total_score >= 40
    THEN "Fair financial health. Consider addressing the lower-scoring areas."
    ELSE "Needs improvement. Focus on budgeting and increasing income or reducing expenses."

\* the scoring after the advanced risk model failed; statuses counts the
\* "critical" and "warning" entries ai_agents.get_budget_status returns
BasicHealthScore(statuses) ==
    LET txn_dicts == get_transactions(agent_user)
        budget_dicts == get_budgets(agent_user)
        goal_dicts == get_goals(agent_user)
        total_income == SumOfType(txn_dicts, "income")
        total_expense == SumOfType(txn_dicts, "expense")
        scores ==
            [income_ratio |-> IncomeRatioScore(total_income, total_expense),
             budget_adherence |-> BudgetAdherenceScore(budget_dicts, statuses),
             savings_rate |-> SavingsRateScore(total_income, total_expense),
             goal_progress |-> GoalProgressScore(goal_dicts),
             consistency |-> ConsistencyScore(txn_dicts)]
        total_score == scores.income_ratio + scores.budget_adherence
                       + scores.savings_rate + scores.goal_progress
                       + scores.consistency
    IN  [score |-> total_score, details |-> scores,
         message |-> HealthMessage(total_score)]

\* risk: what qf.risk_model.assess_financial_health() does
get_financial_health_score(risk, statuses) ==
    IF agent_user = "None"
    THEN RetValue([score |-> 0, message |-> "No user selected."])
    ELSE IF risk.kind = "ok" /\ "error" \notin DOMAIN risk.value
    THEN RetValue([score |-> risk.value.financial_health_score,
                   message |-> "advanced"])
    ELSE RetValue(BasicHealthScore(statuses))

call_get_financial_health_score(risk, statuses) ==
    AgentCall("get_financial_health_score",
              [user_id |-> agent_user, risk |-> risk.kind,
               basic |-> ~(risk.kind = "ok" /\ "error" \notin DOMAIN risk.value),
               statuses |-> statuses],
              get_financial_health_score(risk, statuses))

\* stored rows the score is computed from: any choice among these
\* transactions, goals and budgets, the row's position being its id
HealthTransactionRows ==
    <<[user_id |-> "u1", type |-> "income", category |-> "Salary",
       amount |-> 4, date |-> Ymd(2024, 1, 5)],
      [user_id |-> "u1", type |-> "Income", category |-> "Salary",
       amount |-> 1, date |-> Ymd(2024, 2, 5)],
      [user_id |-> "u1", type |-> "expense", category |-> "Food",
       amount |-> 3, date |-> Ymd(2024, 3, 9)],
      [user_id |-> "u1", type |-> "expense", category |-> "Food",
       amount |-> 1, date |-> Ymd(2024, 4, 9)],
      [user_id |-> "u1", type |-> "expense", category |-> "Rent",
       amount |-> 2, date |-> NoDate],
      [user_id |-> "u1", type |-> "income", category |-> "Bonus",
       amount |-> 9, date |-> Ymd(2024, 5, 1)],
      [user_id |-> "u2", type |-> "income", category |-> "Salary",
       amount |-> 5, date |-> Ymd(2024, 1, 5)]>>

HealthGoalRows ==
    <<[user_id |-> "u1", target_amount |-> 2, current_amount |-> 1],
      [user_id |-> "u1", target_amount |-> 2, current_amount |-> 3],
      [user_id |-> "u1", target_amount |-> 0, current_amount |-> 0]>>

HealthBudgetRows ==
    <<[user_id |-> "u1", category |-> "Food", amount |-> 4,
       period |-> "monthly"],
      [user_id |-> "u1", category |-> "Rent", amount |-> 2,
       period |-> "monthly"]>>

InitHealth ==
    /\ users = {[id |-> u] : u \in Users}
    /\ settings = {[user_id |-> u] : u \in Users}
    /\ \E chosen \in SUBSET (1..Len(HealthTransactionRows)) :
           transactions = {WithId(HealthTransactionRows[i], i) : i \in chosen}
    /\ \E chosen \in SUBSET (1..Len(HealthGoalRows)) :
           goals = {WithId(HealthGoalRows[i], i) : i \in chosen}
    /\ \E chosen \in SUBSET (1..Len(HealthBudgetRows)) :
           budgets = {WithId(HealthBudgetRows[i], i) : i \in chosen}
    /\ analyses = {}
    /\ vectors = {}
    /\ nextId = [transaction |-> Len(HealthTransactionRows) + 1,
                 goal |-> Len(HealthGoalRows) + 1,
                 budget |-> Len(HealthBudgetRows) + 1,
                 analysis |-> 1, vector |-> 1]
    /\ pc = "idle"
    /\ work = None
    /\ agent_user = "None"
    /\ last = [op |-> "none", args |-> NoArgs, ret |-> None]

RiskOutcomes ==
    {AiOk([financial_health_score |-> 70]),
     AiOk([error |-> "Insufficient data"]),
     AiRaise(<<"t", "i", "m", "e", "o", "u", "t">>)}

\* the statuses of none, one or two budgets
BudgetStatusCounts ==
    {s \in [over_budget_count : 0..1, warning_count : 0..1, any : BOOLEAN] :
        s.over_budget_count + s.warning_count > 0 => s.any}

NextHealth ==
    \/ \E u \in Users : set_user(u)
    \/ \E risk \in RiskOutcomes, statuses \in BudgetStatusCounts :
           call_get_financial_health_score(risk, statuses)

SpecHealth == InitHealth /\ [][NextHealth]_vars

----------------------------------------------------------------------------
(* db_service.init_db, called by app.py when the script runs.  The frames   *)
(* of the call are counted in work.depth.                                   *)

\* the frames the interpreter allows before it raises RecursionError
RecursionLimit == 64

\* the bindings of the name init_db in db_service's namespace, in the order
\* they are made: the import from db_models, then the def of the module
InitDbBindings == <<"db_models.init_db", "db_service.init_db">>

\* what the name init_db refers to when the body of init_db runs
Resolve(bindings) == bindings[Len(bindings)]

InitDbFrame(depth, schema_calls) ==
    [depth |-> depth, schema_calls |-> schema_calls]

\* app.py: db.init_db()
call_init_db ==
    /\ pc = "idle"
    /\ pc' = "init_db_try"
    /\ work' = InitDbFrame(1, 0)
    /\ last' = [op |-> "call_init_db", args |-> NoArgs, ret |-> None]
    /\ UNCHANGED <<users, settings, tables, nextId, agent_user>>

\* try: init_db()
init_db_try ==
    /\ pc = "init_db_try"
    /\ IF Resolve(InitDbBindings) = "db_service.init_db"
       THEN IF work.depth < RecursionLimit
            THEN /\ work' = InitDbFrame(work.depth + 1, work.schema_calls)
                 /\ pc' = "init_db_try"
            ELSE \* RecursionError, raised in the try of this frame
                 /\ pc' = "init_db_except"
                 /\ UNCHANGED work
       ELSE \* the schema initializer of db_models runs, and may raise
            /\ work' = InitDbFrame(work.depth, work.schema_calls + 1)
            /\ pc' \in {"init_db_return", "init_db_except"}
    /\ last' = [op |-> "init_db_try", args |-> [depth |-> work.depth],
                ret |-> None]
    /\ UNCHANGED <<users, settings, tables, nextId, agent_user>>

\* except Exception as e: print(...); pass -- with no frame to spare the
\* print may itself raise RecursionError, which the caller's except catches
init_db_except ==
    /\ pc = "init_db_except"
    /\ \/ /\ pc' = "init_db_return"
          /\ UNCHANGED work
       \/ /\ work.depth = RecursionLimit
          /\ work.depth > 1
          /\ work' = InitDbFrame(work.depth - 1, work.schema_calls)
          /\ pc' = "init_db_except"
    /\ last' = [op |-> "init_db_except", args |-> [depth |-> work.depth],
                ret |-> None]
    /\ UNCHANGED <<users, settings, tables, nextId, agent_user>>

\* the frame returns None: to the try of the frame that called it, which
\* then returns as well, or to app.py
init_db_return ==
    /\ pc = "init_db_return"
    /\ IF work.depth > 1
       THEN /\ work' = InitDbFrame(work.depth - 1, work.schema_calls)
            /\ pc' = "init_db_return"
            /\ last' = [op |-> "init_db_return",
                        args |-> [depth |-> work.depth], ret |-> None]
       ELSE /\ work' = None
            /\ pc' = "idle"
            /\ last' = [op |-> "init_db",
                        args |-> [schema_calls |-> work.schema_calls],
                        ret |-> None]
    /\ UNCHANGED <<users, settings, tables, nextId, agent_user>>

NextInitDb ==
    \/ call_init_db
    \/ init_db_try
    \/ init_db_except
    \/ init_db_return

SpecInitDb == Init /\ [][NextInitDb]_vars

----------------------------------------------------------------------------
(* utils_core.get_recommendations, as the dashboard calls it.  An element   *)
(* of the returned list is a str or a dict.                                 *)

Str(value) == [kind |-> "str", value |-> value]

Dict(type, tip) == [kind |-> "dict", type |-> type, tip |-> tip]

DefaultRecommendations ==
    <<Str("Start by adding your income and expenses to get personalized recommendations."),
      Str("Set up budget categories to track your spending effectively."),
      Str("Add savings goals to monitor your progress toward financial targets.")>>

general_recs ==
    <<Dict("Cost Optimization",
           "Review subscriptions monthly to eliminate unused services."),
      Dict("Savings",
           "Consider automated transfers to a savings account on payday."),
      Dict("Financial Tracking",
           "Track your net worth monthly to measure your financial progress."),
      Dict("Emergency Planning",
           "Maintain an emergency fund of 3-6 months of expenses."),
      Dict("Investment",
           "Review your investment portfolio at least quarterly to ensure alignment with your goals.")>>

\* sample_size = min(3, len(general_recs))
SampleSize == 3

\* what random.sample(general_recs, sample_size) may choose: positions of
\* general_recs, all different, in any order
Samples ==
    {s \in [1..Min(SampleSize, Len(general_recs)) -> 1..Len(general_recs)] :
        \A i, j \in DOMAIN s : i # j => s[i] # s[j]}

RECURSIVE ExpenseCategoryTotals(_, _)
\* categories[cat] += amount over the expenses, a new key going last
ExpenseCategoryTotals(expenses, categories) ==
    IF expenses = <<>> THEN categories
    ELSE ExpenseCategoryTotals(
             Tail(expenses),
             AddToCategory(categories, Head(expenses).category,
                           Head(expenses).amount))

\* max(categories.items(), key=lambda x: x[1]): the first of the largest
HighestCategory(categories) ==
    LET first == CHOOSE i \in 1..Len(categories) :
                     /\ \A j \in 1..Len(categories) :
                            categories[j].amount <= categories[i].amount
                     /\ \A j \in 1..(i - 1) :
                            categories[j].amount < categories[i].amount
    IN  categories[first].category

get_recommendations(txns, sample) ==
    LET expenses == SelectSeq(txns, LAMBDA t : t.type = "expense")
        income == SelectSeq(txns, LAMBDA t : t.type = "income")
        total_income == SumAmount(income)
        total_expenses == SumAmount(expenses)
        highest ==
            IF expenses # <<>>
            THEN <<Str(<<"Your highest spending is in",
                         HighestCategory(ExpenseCategoryTotals(expenses, <<>>)),
                         "category. Consider setting a budget limit for this area.">>)>>
            ELSE <<>>
        approaching ==
            IF income # <<>> /\ expenses # <<>>
                  /\ total_expenses * 10 > total_income * 9
            THEN <<Str("Your expenses are approaching your income. Consider reducing non-essential spending to improve your savings rate.")>>
            ELSE <<>>
        saving ==
            IF income # <<>> /\ expenses # <<>> /\ total_income > 0
            THEN IF (total_income - total_expenses) * 10 < total_income
                 THEN <<Str("Your savings rate is less than 10%. Consider the 50/30/20 rule: 50% on needs, 30% on wants, and 20% on savings.")>>
                 ELSE IF (total_income - total_expenses) * 5 > total_income
                 THEN <<Str("Great job saving! Consider investing some of your savings for long-term growth.")>>
                 ELSE <<>>
            ELSE <<>>
    IN  IF txns = <<>> THEN DefaultRecommendations
        ELSE highest \o approaching \o saving
                 \o [i \in DOMAIN sample |-> general_recs[sample[i]]]

\* show_dashboard_page: get_recommendations(txn_dicts)
call_get_recommendations(user_id, sample) ==
    Query("get_recommendations",
          [user_id |-> user_id, sample |-> sample],
          RetValue(get_recommendations(get_transactions(user_id), sample)))

\* the transactions the dashboard is shown for: any choice among the first
\* rows of SummaryRows
RecommendationRows == 7

InitRecommendations ==
    /\ users = {[id |-> u] : u \in Users}
    /\ settings = {[user_id |-> u] : u \in Users}
    /\ \E chosen \in SUBSET (1..RecommendationRows) :
           transactions = {PoolRow(i) : i \in chosen}
    /\ goals = {}
    /\ budgets = {}
    /\ analyses = {}
    /\ vectors = {}
    /\ nextId = [transaction |-> Len(SummaryRows) + 1, goal |-> 1,
                 budget |-> 1, analysis |-> 1, vector |-> 1]
    /\ pc = "idle"
    /\ work = None
    /\ agent_user = "None"
    /\ last = [op |-> "none", args |-> NoArgs, ret |-> None]

NextRecommendations ==
    \E u \in SessionUsers, sample \in Samples :
        call_get_recommendations(u, sample)

SpecRecommendations == InitRecommendations /\ [][NextRecommendations]_vars

----------------------------------------------------------------------------
(* The remaining update and delete operations of db_service *)

\* a delete_goal that reports success without looking for the row
delete_goal_unchecked(goal_id) ==
    /\ pc = "idle"
    /\ goals' = {g \in goals : g.id # goal_id}
    /\ last' = [op |-> "delete_goal", args |-> [id |-> goal_id],
                ret |-> RetBool(TRUE)]
    /\ UNCHANGED <<users, settings, transactions, budgets, analyses, vectors,
                   nextId, pc, work, agent_user>>

delete_goal(goal_id) ==
    /\ pc = "idle"
    /\ LET found == {g \in goals : g.id = goal_id}
           call == [op |-> "delete_goal", args |-> [id |-> goal_id],
                    ret |-> None]
       IN  IF found = {}
           THEN /\ last' = [call EXCEPT !.ret = RetBool(FALSE)]
                /\ UNCHANGED goals
           ELSE /\ goals' = goals \ found
                /\ last' = [call EXCEPT !.ret = RetBool(TRUE)]
    /\ UNCHANGED <<users, settings, transactions, budgets, analyses, vectors,
                   nextId, pc, work, agent_user>>

BudgetColumns == {"user_id", "category", "amount"}

update_budget(budget_id, budget_data) ==
    /\ pc = "idle"
    /\ LET found == {b \in budgets : b.id = budget_id}
           call == [op |-> "update_budget", args |-> [id |-> budget_id],
                    ret |-> None]
       IN  IF found = {}
           THEN /\ last' = call
                /\ UNCHANGED budgets
           ELSE LET budget == CHOOSE b \in found : TRUE
                    updated == SetAttrs(budget, budget_data, BudgetColumns)
                IN  /\ budgets' = (budgets \ {budget}) \cup {updated}
                    /\ last' = [call EXCEPT !.ret = RetRow(updated)]
    /\ UNCHANGED <<users, settings, transactions, goals, analyses, vectors,
                   nextId, pc, work, agent_user>>

delete_budget(budget_id) ==
    /\ pc = "idle"
    /\ LET found == {b \in budgets : b.id = budget_id}
           call == [op |-> "delete_budget", args |-> [id |-> budget_id],
                    ret |-> None]
       IN  IF found = {}
           THEN /\ last' = [call EXCEPT !.ret = RetBool(FALSE)]
                /\ UNCHANGED budgets
           ELSE /\ budgets' = budgets \ found
                /\ last' = [call EXCEPT !.ret = RetBool(TRUE)]
    /\ UNCHANGED <<users, settings, transactions, goals, analyses, vectors,
                   nextId, pc, work, agent_user>>

BudgetUpdates == {[amount |-> 1]}

BudgetIds == 1..nextId.budget

CrudTransactionInputs ==
    [amount : {1}, type : {"expense"}, category : CategoryInputs]

CrudTransactionUpdates == {[amount |-> 2]}

CrudGoalInputs == {[target_amount |-> 2]}

CrudGoalUpdates == {[current_amount |-> 3]}

NextCrud ==
    \/ \E u \in SessionUsers, d \in CrudTransactionInputs :
           create_transaction(u, d)
    \/ \E i \in TransactionIds, d \in CrudTransactionUpdates :
           update_transaction(i, d)
    \/ \E i \in TransactionIds : delete_transaction(i)
    \/ \E u \in SessionUsers, d \in CrudGoalInputs : create_goal(u, d)
    \/ \E i \in GoalIds, d \in CrudGoalUpdates : update_goal(i, d)
    \/ \E i \in GoalIds : delete_goal(i)
    \/ \E u \in SessionUsers, d \in BudgetInputs : create_budget(u, d)
    \/ \E i \in BudgetIds, d \in BudgetUpdates : update_budget(i, d)
    \/ \E i \in BudgetIds : delete_budget(i)

SpecCrud == Init /\ [][NextCrud]_vars

----------------------------------------------------------------------------
(* The Goals List of show_goals_page: the value given to st.progress for    *)
(* each goal of the user, as an exact quotient.                             *)

\* goal['current_amount'] / goal['target_amount'], for a target that is not 0
Quotient(current_amount, target_amount) ==
    IF target_amount > 0
    THEN [num |-> current_amount, den |-> target_amount]
    ELSE [num |-> -current_amount, den |-> -target_amount]

\* min(1.0, quotient)
AtMostOne(q) == IF q.num > q.den THEN [num |-> 1, den |-> 1] ELSE q

RECURSIVE GoalsList(_, _)
\* the loop over goal_dicts: the values drawn so far, until a goal raises
GoalsList(goal_dicts, drawn) ==
    IF goal_dicts = <<>> THEN RetValue(drawn)
    ELSE LET goal == Head(goal_dicts)
             progress == AtMostOne(Quotient(goal.current_amount,
                                            goal.target_amount))
         IN  IF goal.target_amount = 0 THEN RetRaise("ZeroDivisionError")
             ELSE IF progress.num < 0
             THEN \* st.progress accepts a value from 0.0 to 1.0
                  RetRaise("StreamlitAPIException")
             ELSE GoalsList(Tail(goal_dicts), Append(drawn, progress))

show_goals_list(user_id) ==
    Query("show_goals_list", [user_id |-> user_id],
          GoalsList(get_goals(user_id), <<>>))

\* goals the data layer is given: by the goal form (a target of at least 1,
\* nothing saved yet), and by other callers
PageGoalInputs ==
    {[target_amount |-> 2, current_amount |-> 0],
     [target_amount |-> 0, current_amount |-> 0]}

PageGoalUpdates == {[current_amount |-> c] : c \in {-1, 1, 3}}

NextGoals ==
    \/ \E u \in SessionUsers, d \in PageGoalInputs : create_goal(u, d)
    \/ \E i \in GoalIds, d \in PageGoalUpdates : update_goal(i, d)
    \/ \E u \in SessionUsers : show_goals_list(u)

SpecGoals == Init /\ [][NextGoals]_vars

----------------------------------------------------------------------------
(* The Financial Charts of the dashboard: the period selected, the start    *)
(* date create_tabbed_charts filters with and the one get_date_range gives. *)
(* A date string is Day(n), n counting the days from "2000-01-01" in years  *)
(* of 365 days.                                                             *)

NoStart == [kind |-> "None"]

\* f"{today.year}-01-01"
YearStart(today) == Day((today \div 365) * 365)

\* utils_core.get_date_range: (start_date, end_date)
get_date_range(period, today) ==
    LET start_date ==
            IF period = "week" THEN Day(today - 7)
            ELSE IF period = "month" THEN Day(today - 30)
            ELSE IF period = "quarter" THEN Day(today - 90)
            ELSE IF period = "year" THEN YearStart(today)
            ELSE Day(0)
    IN  <<start_date, Day(today)>>

\* show_dashboard_page: the selection converted to period_param
PeriodParam(time_period) ==
    IF time_period = "Last 7 Days" THEN "week"
    ELSE IF time_period = "Last 30 Days" THEN "month"
    ELSE IF time_period = "Last 90 Days" THEN "quarter"
    ELSE IF time_period = "This Year" THEN "year"
    ELSE "all"

\* create_tabbed_charts: start_date
ChartStartDate(time_period, today) ==
    IF time_period = "week" THEN Day(today - 7)
    ELSE IF time_period = "month" THEN Day(today - 30)
    ELSE IF time_period = "year" THEN Day(today - 365)
    ELSE NoStart

\* create_tabbed_charts: the ids of the transactions the first tab groups,
\* those with a date that is not before start_date
ChartTransactions(user_id, start_date) ==
    {t.id : t \in {x \in transactions :
                      /\ x.user_id = user_id
                      /\ x.date.kind = "ymd"
                      /\ start_date # NoStart => x.date.day >= start_date.day}}

create_tabbed_charts(user_id, time_period, today) ==
    LET start_date == ChartStartDate(time_period, today)
    IN  [start_date |-> start_date,
         shown |-> ChartTransactions(user_id, start_date)]

TimePeriodOptions ==
    {"Last 30 Days", "Last 7 Days", "Last 90 Days", "This Year", "All Time"}

\* the dashboard run after time_period is selected
select_time_period(user_id, time_period, today) ==
    Query("select_time_period",
          [user_id |-> user_id, time_period |-> time_period, today |-> today],
          RetValue(create_tabbed_charts(user_id, PeriodParam(time_period),
                                        today)))

\* datetime.datetime.now(), as a day number
ChartTodays == {50, 100, 400}

NextCharts ==
    \E u \in SessionUsers, p \in TimePeriodOptions, today \in ChartTodays :
        select_time_period(u, p, today)

SpecCharts == InitPredict /\ [][NextCharts]_vars

----------------------------------------------------------------------------
(* The reset controls of show_settings_page under Streamlit's reruns: each  *)
(* user event runs the script once.  work holds the session: the value of   *)
(* the checkbox, the widgets the last run rendered and how far the user got *)
(* with "Reset All Data", tick, "Confirm Reset".                            *)

SettingsSession(checkbox, rendered, steps) ==
    [checkbox |-> checkbox, rendered |-> rendered, steps |-> steps]

\* st.button(label): true only in the run its own click triggered
Button(label, clicked) == clicked = label

\* one run of the block, given the widget the user acted on and the value
\* of the checkbox: the widgets rendered and whether db.reset_user_data ran
SettingsRun(clicked, checkbox) ==
    IF Button("Reset All Data", clicked)
    THEN LET confirm == checkbox
         IN  IF confirm
             THEN [rendered |-> {"Reset All Data", "checkbox", "Confirm Reset"},
                   reset_called |-> Button("Confirm Reset", clicked)]
             ELSE [rendered |-> {"Reset All Data", "checkbox"},
                   reset_called |-> FALSE]
    ELSE [rendered |-> {"Reset All Data"}, reset_called |-> FALSE]

\* the three steps in their order: a step counts when it follows the others
StepsAfter(steps, event) ==
    IF steps = 0 /\ event = "Reset All Data" THEN 1
    ELSE IF steps = 1 /\ event = "tick" THEN 2
    ELSE IF steps = 2 /\ event = "Confirm Reset" THEN 3
    ELSE steps

\* the user acts on a rendered widget and the script reruns; a checkbox the
\* run does not render may keep its value or lose it
SettingsEvent(user_id, event, checkbox, kept) ==
    LET clicked == IF event \in {"tick", "untick"} THEN "checkbox" ELSE event
        run == SettingsRun(clicked, checkbox)
        u_transactions == OwnedBy(transactions, user_id)
    IN  /\ pc = "settings"
        /\ work' = SettingsSession(
                       IF "checkbox" \in run.rendered \/ kept
                       THEN checkbox ELSE FALSE,
                       run.rendered,
                       StepsAfter(work.steps, event))
        /\ last' = [op |-> "settings_run",
                    args |-> [user_id |-> user_id, event |-> event,
                              checkbox |-> checkbox],
                    ret |-> RetBool(run.reset_called)]
        /\ IF run.reset_called
           THEN /\ vectors' = {v \in vectors :
                                  v.transaction_id \notin Ids(u_transactions)}
                /\ analyses' = analyses \ OwnedBy(analyses, user_id)
                /\ transactions' = transactions \ u_transactions
                /\ goals' = goals \ OwnedBy(goals, user_id)
                /\ budgets' = budgets \ OwnedBy(budgets, user_id)
           ELSE UNCHANGED tables
        /\ UNCHANGED <<users, settings, nextId, pc, agent_user>>

click_reset_all_data(user_id, kept) ==
    /\ "Reset All Data" \in work.rendered
    /\ SettingsEvent(user_id, "Reset All Data", work.checkbox, kept)

toggle_checkbox(user_id, kept) ==
    /\ "checkbox" \in work.rendered
    /\ SettingsEvent(user_id, IF work.checkbox THEN "untick" ELSE "tick",
                     ~work.checkbox, kept)

click_confirm_reset(user_id, kept) ==
    /\ "Confirm Reset" \in work.rendered
    /\ SettingsEvent(user_id, "Confirm Reset", work.checkbox, kept)

\* the stored transactions of the user on the page: any choice among the
\* first rows of SummaryRows
SettingsRows == 5

InitSettings ==
    /\ users = {[id |-> u] : u \in Users}
    /\ settings = {[user_id |-> u] : u \in Users}
    /\ \E chosen \in SUBSET (1..SettingsRows) :
           transactions = {PoolRow(i) : i \in chosen}
    /\ goals = {}
    /\ budgets = {}
    /\ analyses = {}
    /\ vectors = {}
    /\ nextId = [transaction |-> Len(SummaryRows) + 1, goal |-> 1,
                 budget |-> 1, analysis |-> 1, vector |-> 1]
    /\ pc = "settings"
    /\ work = SettingsSession(FALSE, {"Reset All Data"}, 0)
    /\ agent_user = "None"
    /\ last = [op |-> "none", args |-> NoArgs, ret |-> None]

NextSettings ==
    \/ \E u \in SessionUsers, kept \in BOOLEAN : click_reset_all_data(u, kept)
    \/ \E u \in SessionUsers, kept \in BOOLEAN : toggle_checkbox(u, kept)
    \/ \E u \in SessionUsers, kept \in BOOLEAN : click_confirm_reset(u, kept)

SpecSettings == InitSettings /\ [][NextSettings]_vars

----------------------------------------------------------------------------
(* Properties of the data layer, checked under Spec *)

ResetReturned(value) ==
    /\ pc = "idle"
    /\ last.op = "reset_user_data"
    /\ last.ret.kind = "bool"
    /\ last.ret.value = value

NotOwnedBy(rows, user_id) == {r \in rows : r.user_id # user_id}

\* C1: after reset_user_data(u) has returned True, u has no transaction,
\* goal, budget, analysis or vector row left, and the tables are what they
\* were before the call less u's rows (the vector rows being those that
\* referenced u's transactions); User and UserSetting rows are unchanged.
ResetDeletesExactlyUserData ==
    ResetReturned(TRUE) =>
        LET u == last.args.user_id
            before == last.ret.before
            uTxnIds == {t.id : t \in {x \in before.transactions :
                                          x.user_id = u}}
        IN  /\ \A t \in transactions : t.user_id # u
            /\ \A g \in goals : g.user_id # u
            /\ \A b \in budgets : b.user_id # u
            /\ \A a \in analyses : a.user_id # u
            /\ \A v \in vectors : v.transaction_id \notin uTxnIds
            /\ transactions = NotOwnedBy(before.transactions, u)
            /\ goals = NotOwnedBy(before.goals, u)
            /\ budgets = NotOwnedBy(before.budgets, u)
            /\ analyses = NotOwnedBy(before.analyses, u)
            /\ vectors = {v \in before.vectors :
                              v.transaction_id \notin uTxnIds}
            /\ users = before.users
            /\ settings = before.settings

\* a reset that returned True, of a user who had a transaction with a vector
\* row, while the other user had a row of their own, which is still there
ResetDeletesExactlyUserData_witness ==
    /\ ResetReturned(TRUE)
    /\ \E t \in last.ret.before.transactions :
           /\ t.user_id = last.args.user_id
           /\ \E v \in last.ret.before.vectors : v.transaction_id = t.id
    /\ \E r \in transactions \cup goals \cup budgets \cup analyses :
           r.user_id # last.args.user_id

\* C2: when a statement of reset_user_data raises, the call returns False
\* (the exception does not leave it) and every table, User and UserSetting
\* included, holds exactly what it held before the call.
ResetIsAllOrNothing ==
    ResetReturned(FALSE) =>
        LET before == last.ret.before
        IN  /\ transactions = before.transactions
            /\ goals = before.goals
            /\ budgets = before.budgets
            /\ analyses = before.analyses
            /\ vectors = before.vectors
            /\ users = before.users
            /\ settings = before.settings

\* a reset that raised after deletes had been flushed, and returned False
ResetIsAllOrNothing_witness ==
    /\ ResetReturned(FALSE)
    /\ last.ret.pending
    /\ \E t \in transactions : t.user_id = last.args.user_id

\* C3: at no step of reset_user_data does the session hold a vector row that
\* references a transaction this reset has already deleted.
ResetDeletesChildrenFirst ==
    pc # "idle" =>
        \A v \in work.vectors :
            v.transaction_id \in Ids(transactions)
                => v.transaction_id \in Ids(work.transactions)

\* the reset has deleted a transaction that a vector row referenced
ResetDeletesChildrenFirst_witness ==
    /\ pc = "goals"
    /\ \E v \in vectors :
           /\ v.transaction_id \in Ids(OwnedBy(transactions, work.user_id))
           /\ v.transaction_id \notin Ids(work.transactions)
           /\ v \notin work.vectors

RECURSIVE StoredTotal(_)
StoredTotal(rows) ==
    IF rows = {} THEN 0
    ELSE LET r == CHOOSE x \in rows : TRUE
         IN  r.amount + StoredTotal(rows \ {r})

\* C4: calculate_balance(u) is the total of u's stored income amounts less
\* the total of u's stored expense amounts, and is the balance field of
\* get_transaction_summary(u), whatever calls came before.
BalanceMatchesStoredTransactions ==
    \A u \in Users :
        /\ calculate_balance(u) =
               StoredTotal({t \in transactions :
                               t.user_id = u /\ t.type = "income"})
               - StoredTotal({t \in transactions :
                                 t.user_id = u /\ t.type = "expense"})
        /\ calculate_balance(u) = get_transaction_summary(u).balance

\* after an update, a user holds income and expenses and owes 1, while the
\* other user holds a transaction too
BalanceMatchesStoredTransactions_witness ==
    /\ last.op = "update_transaction"
    /\ \E u \in Users :
           /\ calculate_balance(u) = -1
           /\ \E t \in transactions : t.user_id = u /\ t.type = "income"
           /\ \E t \in transactions : t.user_id # u

CreateOps == {"create_transaction", "create_goal", "create_budget"}

SeqRange(s) == {s[i] : i \in 1..Len(s)}

\* C6: get_transactions(u), get_goals(u) and get_budgets(u) return exactly
\* the stored rows whose user_id is u, each once, and a create call for
\* another user leaves all three results for u as they were.
GetsReturnOwnRows ==
    \A u \in Users :
        /\ SeqRange(get_transactions(u)) = {t \in transactions : t.user_id = u}
        /\ Len(get_transactions(u)) = Cardinality(SeqRange(get_transactions(u)))
        /\ SeqRange(get_goals(u)) = {g \in goals : g.user_id = u}
        /\ Len(get_goals(u)) = Cardinality(SeqRange(get_goals(u)))
        /\ SeqRange(get_budgets(u)) = {b \in budgets : b.user_id = u}
        /\ Len(get_budgets(u)) = Cardinality(SeqRange(get_budgets(u)))

CreateForOtherUser(u) ==
    /\ last' # last
    /\ last'.op \in CreateOps
    /\ last'.args.user_id # u

GetsAreIsolated ==
    /\ []GetsReturnOwnRows
    /\ [][\A u \in Users :
            CreateForOtherUser(u) =>
                /\ get_transactions(u)' = get_transactions(u)
                /\ get_goals(u)' = get_goals(u)
                /\ get_budgets(u)' = get_budgets(u)]_vars

\* a transaction was just created for u2 while u1 holds a transaction
GetsAreIsolated_witness ==
    /\ last.op = "create_transaction"
    /\ last.args.user_id = "u2"
    /\ Len(get_transactions("u1")) >= 1
    /\ Len(get_transactions("u2")) >= 1

StoredGoal(goal_id) == CHOOSE g \in goals : g.id = goal_id

\* C7: create_goal and update_goal store the current_amount they are given
\* (0 when create_goal is given none), also when it exceeds target_amount.
GoalAmountStoredAsGiven ==
    /\ last.op = "create_goal" =>
           /\ last.ret.row \in goals
           /\ last.ret.row.current_amount =
                  Get(last.args.data, "current_amount", 0)
    /\ (last.op = "update_goal" /\ last.ret.kind = "row") =>
           /\ last.ret.row \in goals
           /\ StoredGoal(last.args.id).current_amount =
                  last.args.data.current_amount

\* update_goal has stored a current_amount above the goal's target_amount
GoalAmountStoredAsGiven_witness ==
    /\ last.op = "update_goal"
    /\ last.ret.kind = "row"
    /\ StoredGoal(last.args.id).current_amount
           > StoredGoal(last.args.id).target_amount

----------------------------------------------------------------------------
(* Properties of the forms and of the FinanceAgent wrappers *)

\* C5: every persisted Transaction has a type that is income or expense,
\* whatever create_transaction and update_transaction calls were made.
\* (Checked under SpecApp, where it fails: the data layer stores the type
\* it is given.)
EveryTypeIsIncomeOrExpense ==
    \A t \in transactions : t.type \in {"income", "expense"}

FormOps == {"transaction_form", "quick_add"}

\* the form that returned last was filled in, and its AI call raised
FormWithFailedAi ==
    /\ last.op \in FormOps
    /\ "ai" \in DOMAIN last.args
    /\ last.args.ai = "raise"

\* C8: categorize_transaction never raises; when the AI categorization call
\* raises it returns "Other", so a filled-in form whose AI call fails still
\* records its transaction (with category "Other" when the AI was asked)
\* unless db.create_transaction itself fails.
CategorizeFallsBackToOther ==
    /\ last.op = "categorize_transaction" =>
           /\ last.ret.kind = "value"
           /\ last.args.ai.kind = "raise" => last.ret.value = "Other"
    /\ (FormWithFailedAi /\ last.args.fault # "db") =>
           /\ last.ret.row.kind = "row"
           /\ last.ret.row.row \in transactions
           /\ last.args.use_ai => last.ret.row.row.category = "Other"
    /\ (FormWithFailedAi /\ last.args.fault = "none") =>
           last.ret.level = "success"

\* the Quick Add form stored a transaction under "Other" after its AI call raised
CategorizeFallsBackToOther_witness ==
    /\ last.op = "quick_add"
    /\ FormWithFailedAi
    /\ last.args.fault = "none"
    /\ last.ret.level = "success"
    /\ \E t \in transactions :
           t = last.ret.row.row /\ t.category = "Other" /\ t.type = "income"

QuotaLetters ==
    <<{"q", "Q"}, {"u", "U"}, {"o", "O"}, {"t", "T"}, {"a", "A"}>>

\* the message contains the word quota, in any letter case
MentionsQuota(message) ==
    \E i \in 1..Len(message) :
        /\ i + 4 <= Len(message)
        /\ \A k \in 1..5 : message[i + k - 1] \in QuotaLetters[k]

AgentCallFailed ==
    /\ last.op \in {"get_insights", "answer_question"}
    /\ last.args.user_id # "None"
    /\ last.args.ai.kind = "raise"

\* C9: with a user set, get_insights and answer_question return a dict when
\* the agent call raises: its error is API_QUOTA_EXCEEDED when the message
\* contains "quota" (in any letter case, the code lower-cases the message)
\* and AI_UNAVAILABLE otherwise, and answer_question's dict carries one of
\* the two static answer texts.
AgentErrorsBecomeFallbacks ==
    AgentCallFailed =>
        /\ last.ret.kind = "value"
        /\ last.ret.value.error =
               IF MentionsQuota(last.args.ai.message)
               THEN "API_QUOTA_EXCEEDED" ELSE "AI_UNAVAILABLE"
        /\ last.op = "answer_question" =>
               /\ "answer" \in DOMAIN last.ret.value
               /\ last.ret.value.answer \in {QuotaAnswer, UnavailableAnswer}

\* answer_question answered a quota error with the quota fallback and its text
AgentErrorsBecomeFallbacks_witness ==
    /\ AgentCallFailed
    /\ last.op = "answer_question"
    /\ MentionsQuota(last.args.ai.message)
    /\ last.ret.value.error = "API_QUOTA_EXCEEDED"
    /\ last.ret.value.answer = QuotaAnswer

IncomeSpellings == {"income", "Income", "INCOME"}

ExpenseSpellings == {"expense", "Expense", "EXPENSE"}

UserExpenses(user_id) ==
    {t \in transactions : t.user_id = user_id /\ t.type \in ExpenseSpellings}

ExpenseCategories(user_id) == {t.category : t \in UserExpenses(user_id)}

CategoryTotal(user_id, category) ==
    StoredTotal({t \in UserExpenses(user_id) : t.category = category})

SummaryFellBack ==
    /\ last.op = "get_financial_summary"
    /\ last.args.user_id # "None"
    /\ last.args.ai.kind = "raise"

\* C10: when the AI summary call raises, get_financial_summary returns the
\* user's income and expense totals (type compared without regard to case),
\* their difference as net_cash_flow, and as top_expense_categories the
\* (at most five) categories with the largest expense totals, each once with
\* its total, in non-increasing order; summary_text is a static text.
SummaryFallbackIsComputedFromTransactions ==
    SummaryFellBack =>
        LET u == last.args.user_id
            r == last.ret.value
            top == r.top_expense_categories
            listed == {top[i].category : i \in 1..Len(top)}
        IN  /\ r.total_income =
                   StoredTotal({t \in transactions :
                                   t.user_id = u /\ t.type \in IncomeSpellings})
            /\ r.total_expenses = StoredTotal(UserExpenses(u))
            /\ r.net_cash_flow = r.total_income - r.total_expenses
            /\ Len(top) <= 5
            /\ Len(top) = IF Cardinality(ExpenseCategories(u)) < 5
                          THEN Cardinality(ExpenseCategories(u)) ELSE 5
            /\ Cardinality(listed) = Len(top)
            /\ listed \subseteq ExpenseCategories(u)
            /\ \A i \in 1..Len(top) :
                   top[i].amount = CategoryTotal(u, top[i].category)
            /\ \A i, j \in 1..Len(top) :
                   i < j => top[i].amount >= top[j].amount
            /\ \A c \in ExpenseCategories(u) \ listed :
                   \A i \in 1..Len(top) : CategoryTotal(u, c) <= top[i].amount
            /\ r.summary_text \in {QuotaSummaryText, BasicSummaryText}

\* a fallback summary of a user with income and more than five expense
\* categories, one of them filled by two transactions
SummaryFallbackIsComputedFromTransactions_witness ==
    /\ SummaryFellBack
    /\ Cardinality(ExpenseCategories(last.args.user_id)) > 5
    /\ Len(last.ret.value.top_expense_categories) = 5
    /\ last.ret.value.total_income > 0
    /\ last.ret.value.top_expense_categories[1].amount
           > last.ret.value.top_expense_categories[5].amount
    /\ \E t1, t2 \in UserExpenses(last.args.user_id) :
           t1 # t2 /\ t1.category = t2.category

----------------------------------------------------------------------------
(* Properties of the rule-based fallbacks *)

PredictFellBack ==
    /\ last.op = "predict_transactions"
    /\ last.args.user_id # "None"
    /\ last.args.ai.kind = "raise"

\* the user's transactions with the description (in any letter case),
\* category and type of a prediction
GroupOf(user_id, p) ==
    {t \in transactions :
        /\ t.user_id = user_id
        /\ LowerChars(t.description) = LowerChars(p.description)
        /\ t.category = p.category
        /\ t.type = p.type}

DatedDays(group) == {t.date.day : t \in {x \in group : x.date.kind = "ymd"}}

MaxOf(S) == CHOOSE m \in S : \A x \in S : x <= m

MinOf(S) == CHOOSE m \in S : \A x \in S : m <= x

\* C11: when the AI prediction call raises, every prediction returned by
\* predict_transactions comes from the group of at least two of the user's
\* transactions with its description (in any letter case), category and
\* type; the average gap between the group's consecutive dates is between
\* 25 and 35 days, predicted_date is the group's latest date plus 30 days
\* and later than the current time, amount is the group's mean amount, and
\* the list is sorted by predicted_date ascending.
\* (Checked under SpecPredict, where it fails: the key that groups the
\* transactions joins description, category and type with "-".)
PredictionsComeFromRecurringGroups ==
    PredictFellBack =>
        LET ps == last.ret.value
            FromGroup(p) ==
                LET group == GroupOf(last.args.user_id, p)
                    dated == {t \in group : t.date.kind = "ymd"}
                    days == DatedDays(group)
                    gaps == Cardinality(dated) - 1
                IN  /\ Cardinality(group) >= 2
                    /\ gaps >= 1
                    /\ 25 * gaps <= MaxOf(days) - MinOf(days)
                    /\ MaxOf(days) - MinOf(days) <= 35 * gaps
                    /\ p.predicted_date = MaxOf(days) + 30
                    /\ p.predicted_date > last.args.today
                    /\ p.amount.sum * Cardinality(group)
                           = StoredTotal(group) * p.amount.count
        IN  /\ \A n \in 1..Len(ps) : FromGroup(ps[n])
            /\ \A m, n \in 1..Len(ps) :
                   m < n => ps[m].predicted_date <= ps[n].predicted_date

\* the expense total of the month of `now` that a budget is compared with
MonthSpending(budget, now) ==
    StoredTotal({t \in transactions :
                    /\ t.user_id = budget.user_id
                    /\ t.type = "expense"
                    /\ <<t.date.y, t.date.m>> = <<now.y, now.m>>
                    /\ budget.category \in {t.category, "All Categories"}})

\* C12: check_budget_status(u) returns one warning for each budget of u with
\* a positive amount whose category's current-month expense spending (all
\* categories for "All Categories") is at least 75% of the amount, and none
\* for any other budget; severity is high from 100%, medium from 90% and low
\* from 75%; remaining is max(0, amount - spent) and is never negative.
BudgetWarningsMatchSpending ==
    last.op = "check_budget_status" =>
        LET u == last.args.user_id
            now == last.args.now
            ws == last.ret.value
            Warned(b) == {n \in 1..Len(ws) : ws[n].budget = b}
            Due(b) == b.amount > 0
                      /\ 100 * MonthSpending(b, now) >= 75 * b.amount
        IN  /\ \A n \in 1..Len(ws) :
                   ws[n].budget \in budgets /\ ws[n].budget.user_id = u
            /\ \A b \in {x \in budgets : x.user_id = u} :
                   Cardinality(Warned(b)) = IF Due(b) THEN 1 ELSE 0
            /\ \A n \in 1..Len(ws) :
                   LET b == ws[n].budget
                       spent == MonthSpending(b, now)
                   IN  /\ ws[n].spent = spent
                       /\ ws[n].severity =
                              IF spent >= b.amount THEN "high"
                              ELSE IF 10 * spent >= 9 * b.amount THEN "medium"
                              ELSE "low"
                       /\ ws[n].remaining >= 0
                       /\ ws[n].remaining =
                              IF b.amount > spent THEN b.amount - spent ELSE 0

\* a check that returned warnings of all three severities and passed over a
\* budget under 75% and a budget whose amount is not positive
BudgetWarningsMatchSpending_witness ==
    /\ last.op = "check_budget_status"
    /\ \E n \in 1..Len(last.ret.value) : last.ret.value[n].severity = "low"
    /\ \E n \in 1..Len(last.ret.value) : last.ret.value[n].severity = "medium"
    /\ \E n \in 1..Len(last.ret.value) : last.ret.value[n].severity = "high"
    /\ \E b \in budgets :
           /\ b.user_id = last.args.user_id
           /\ b.amount <= 0
           /\ MonthSpending(b, last.args.now) > 0

BasicScoreReturned ==
    /\ last.op = "get_financial_health_score"
    /\ last.args.user_id # "None"
    /\ last.args.basic

\* C13: the score of the basic scoring path of get_financial_health_score
\* is between 0 and 100, and each component stays within its points:
\* income_ratio 0..20, budget_adherence 0..30, savings_rate 0..20,
\* goal_progress 0..15, consistency 0..15.
\* (Checked under SpecHealth, where it fails: savings_rate has no lower
\* limit when the expenses exceed the income.)
HealthScoreWithinRange ==
    BasicScoreReturned =>
        /\ last.ret.value.score \in 0..100
        /\ last.ret.value.details.income_ratio \in 0..20
        /\ last.ret.value.details.budget_adherence \in 0..30
        /\ last.ret.value.details.savings_rate \in 0..20
        /\ last.ret.value.details.goal_progress \in 0..15
        /\ last.ret.value.details.consistency \in 0..15

----------------------------------------------------------------------------
(* Properties of start-up and of the pages *)

\* C14: a call of db_service.init_db() returns normally after invoking the
\* schema initializer of db_models.
\* (Checked under SpecInitDb, where it fails: inside db_service the name
\* init_db is the function itself.)
InitDbInvokesSchemaInitializer ==
    last.op = "init_db" => last.args.schema_calls >= 1

\* C15: every element of the list get_recommendations returns is a string,
\* and with no transactions the list is the three default recommendations.
\* (Checked under SpecRecommendations, where it fails: with transactions
\* the list ends with three of the general_recs dicts.)
RecommendationsAreStrings ==
    last.op = "get_recommendations" =>
        /\ \A n \in 1..Len(last.ret.value) : last.ret.value[n].kind = "str"
        /\ (\A t \in transactions : t.user_id # last.args.user_id) =>
               last.ret.value = DefaultRecommendations

UpdateOps == {"update_transaction", "update_goal", "update_budget"}

DeleteOps == {"delete_transaction", "delete_goal", "delete_budget"}

\* the table an update or delete operation works on
TableOf(op) ==
    IF op \in {"update_transaction", "delete_transaction"} THEN transactions
    ELSE IF op \in {"update_goal", "delete_goal"} THEN goals
    ELSE budgets

\* this step is a call of op with an id that matches no stored row
CalledWithMissingId(op) ==
    /\ last'.op = op
    /\ last' # last
    /\ last'.args.id \notin Ids(TableOf(op))

\* C16: called with an id that matches no stored record, update_transaction,
\* update_goal and update_budget return None, delete_transaction,
\* delete_goal and delete_budget return False, and the stored data is
\* unchanged; so deleting an id a second time returns False.
MissingIdIsReportedAndChangesNothing ==
    [][/\ \A op \in UpdateOps :
              CalledWithMissingId(op) =>
                  last'.ret = None /\ tables' = tables
       /\ \A op \in DeleteOps :
              CalledWithMissingId(op) =>
                  last'.ret = RetBool(FALSE) /\ tables' = tables]_vars

\* delete_goal returned False for the id of a goal that was stored and has
\* been deleted since
MissingIdIsReportedAndChangesNothing_witness ==
    /\ last.op = "delete_goal"
    /\ last.ret = RetBool(FALSE)
    /\ last.args.id < nextId.goal
    /\ last.args.id \notin Ids(goals)
    /\ goals # {}

\* C17: for every goal the data layer can hold, the progress value the
\* Goals List passes to the progress bar is current_amount / target_amount
\* limited to at most 1.0, and lies in the range 0 to 1.
\* (Checked under SpecGoals, where it fails: the quotient has no lower
\* limit and no guard against a target of 0.)
GoalProgressWithinUnitRange ==
    last.op = "show_goals_list" =>
        /\ last.ret.kind = "value"
        /\ Len(last.ret.value) =
               Cardinality({g \in goals : g.user_id = last.args.user_id})
        /\ \A n \in 1..Len(last.ret.value) :
               /\ 0 <= last.ret.value[n].num
               /\ last.ret.value[n].num <= last.ret.value[n].den

\* C18: for every time period offered on the dashboard, create_tabbed_charts
\* filters its data with the start date that get_date_range returns for the
\* period parameter the selection is mapped to.
\* (Checked under SpecCharts, where it fails: create_tabbed_charts has no
\* "quarter" branch and starts "year" 365 days back.)
ChartsStartWhereDateRangeStarts ==
    last.op = "select_time_period" =>
        last.ret.value.start_date =
            get_date_range(PeriodParam(last.args.time_period),
                           last.args.today)[1]

\* C19: if submitting an Add Transaction form (the Transactions page form or
\* Quick Add) ends with an error message, the submission persisted no
\* transaction.
\* (Checked under SpecApp, where it fails: the calls that follow
\* db.create_transaction in the try block may raise after the commit.)
ErrorMeansNothingPersisted ==
    (last.op \in FormOps /\ last.ret.level = "error") =>
        ~ \E t \in transactions : last.ret.row = RetRow(t)

\* C20: once a user has clicked "Reset All Data", then ticked the
\* confirmation checkbox, then clicked "Confirm Reset", db.reset_user_data
\* has been called with their user id: the run of that last click calls it.
\* (Checked under SpecSettings, where it fails: "Confirm Reset" is tested
\* inside the block of "Reset All Data", and the two buttons are never true
\* in the same run.)
ConfirmedResetCallsResetUserData ==
    (pc = "settings" /\ work.steps = 3 /\ last.args.event = "Confirm Reset")
        => last.ret = RetBool(TRUE)

\* the date lies in the window of the period that ends with `now`: the
\* calendar year, the calendar month, or the seven days up to `now` (for a
\* `now` on or after the 7th, so that they lie in one month)
InPeriodWindow(date, now, period) ==
    IF period = "yearly" THEN date.y = now.y
    ELSE IF period = "monthly" THEN date.y = now.y /\ date.m = now.m
    ELSE /\ date.y = now.y
         /\ date.m = now.m
         /\ now.d - 6 <= date.d
         /\ date.d <= now.d

\* the expense total a budget is to be compared with: that of its category
\* within the window of its own period
PeriodSpending(budget, now) ==
    StoredTotal({t \in transactions :
                    /\ t.user_id = budget.user_id
                    /\ t.type = "expense"
                    /\ InPeriodWindow(t.date, now, budget.period)
                    /\ budget.category \in {t.category, "All Categories"}})

\* C21: check_budget_status evaluates each budget against the expenses that
\* fall within the time window of the budget's own period (weekly, monthly
\* or yearly): the spending it reports for a budget is that of the period's
\* window, and a budget is warned about exactly when that spending reaches
\* 75% of its positive amount.
\* (Checked under SpecBudget, where it fails: every budget is compared with
\* the expenses of the current month.)
BudgetsCheckedWithinOwnPeriod ==
    last.op = "check_budget_status" =>
        LET now == last.args.now
            ws == last.ret.value
        IN  /\ \A n \in 1..Len(ws) :
                   ws[n].spent = PeriodSpending(ws[n].budget, now)
            /\ \A b \in {x \in budgets : x.user_id = last.args.user_id} :
                   (\E n \in 1..Len(ws) : ws[n].budget = b)
                       <=> /\ b.amount > 0
                           /\ 100 * PeriodSpending(b, now) >= 75 * b.amount

====
